---- MODULE Spec2Model ----
(***************************************************************************)
(* A model of the zutto editor: the Buffer tab (src/src/tab/buffer.rs),    *)
(* the keymap resolver (src/src/key.rs), the action grammar and the        *)
(* action-processing task (src/src/lib.rs, src/src/actions.rs,             *)
(* src/src/lineinput.rs) and the redraw loop (src/src/render.rs).          *)
(*                                                                         *)
(* Characters are Unicode scalar values (integers).  A string is a         *)
(* sequence of characters.  Rope indices are 0-based in the source and     *)
(* sequences are 1-based here: chars[k] of the source is text[k + 1].      *)
(***************************************************************************)
EXTENDS Integers, Sequences, FiniteSets, TLC

VARIABLES
    build,      \* "debug" (overflow checks: arithmetic overflow panics) or "release" (wraps)
    buffer,     \* the Buffer tab: text, cursor_idx, camera, saved, panicked
    setting,    \* Setting: tab_size, tab_type
    size,       \* Buffer.size: width, height
    keymap,          \* Keymap.keymap: action template -> Command (a set of chords)
    keymap_reversed, \* Keymap.keymap_reversed, in the order the HashMap iterates it
    key,             \* the chord of the key event read last
    resolved,        \* what Keymap::get_action returned for it
    tabs,            \* EditorInfo.tabs: each tab's kind, stored tab_idx, path and identity
    running,         \* EditorInfo.running
    state,           \* EditorInfo.state (KeymapState)
    line_input,      \* EditorInfo.line_input: text, action, notice
    action_channel,  \* action strings sent and not yet received
    resolved_in,     \* for each of them, the state the event handler held when it sent it
    alart_channel,   \* errors sent and not yet displayed
    proc,            \* process_action: position, locals and the focus index tab_idx
    locks,           \* owner of each tokio Mutex of EditorInfo
    renderer,        \* position of the redraw loop of run
    event_handler,   \* position of EventHandler::run
    reader,          \* key events the event stream has yet to deliver
    created,         \* tabs created so far (the identity of the next tab)
    parse_input,     \* the arguments of a call of parse_action
    parse_output,    \* what the call returned
    disk,            \* the file of the Buffer tab: its bytes and the times save wrote it
    editor_size,     \* EditorInfo.size in the clone of EditorInfo each task holds
    resize_events    \* the sizes of the resize events the event stream has yet to deliver

keyvars == <<keymap, keymap_reversed, key, resolved>>
parsevars == <<parse_input, parse_output>>
termvars == <<editor_size, resize_events>>
edvars == <<tabs, running, state, line_input, action_channel, resolved_in, alart_channel,
            proc, locks, renderer, event_handler, reader, created>>

(***************************************************************************)
(* Bounds of the model.                                                    *)
(***************************************************************************)
MaxLen == 3          \* longest document explored
MaxTabSize == 3      \* setting.tab_size ranges over 2..MaxTabSize
ViewWidth == 2       \* Buffer.size.width
ViewHeight == 2      \* Buffer.size.height
MaxFileLen == 2      \* longest file loaded by Buffer::from_file
MaxChords == 2       \* most alternative chords of one Command
MaxSaves == 1        \* writes of Buffer::save explored in one run
MaxSaveFileLen == 1  \* longest file loaded, edited and saved again

(***************************************************************************)
(* Characters named by the source.                                         *)
(***************************************************************************)
NL == 10
TAB == 9
SPACE == 32
COMMA == 44
CR == 13
HANGUL_PAD == 1
TAB_PAD == 2

Min(a, b) == IF a < b THEN a ELSE b
SetMax(S) == CHOOSE x \in S : \A y \in S : y <= x
SetMin(S) == CHOOSE x \in S : \A y \in S : x <= y

is_hangul(c) == (44032 < c /\ c < 55215) \/ (12592 < c /\ c < 12686)

\* char::to_lowercase on the characters of the model (ASCII letters)
to_lowercase(c) == IF 65 <= c /\ c <= 90 THEN c + 32 ELSE c

\* char::is_whitespace
is_whitespace(c) == c \in {SPACE, NL, TAB, CR, 11, 12, 133, 8232, 8233}

(***************************************************************************)
(* The rope (ropey::Rope) as a sequence of characters.                     *)
(***************************************************************************)
RopeInsert(t, i, s) == SubSeq(t, 1, i) \o s \o SubSeq(t, i + 1, Len(t))
RopeRemove(t, from, to) == SubSeq(t, 1, from) \o SubSeq(t, to + 1, Len(t))

\* The line breaks ropey counts in len_lines (default features): LF, VT, FF,
\* CR, NEL, LS, PS, with CR LF counted as one break.
IsLineBreak(t, k) ==
    /\ t[k] \in {NL, 11, 12, CR, 133, 8232, 8233}
    /\ ~(t[k] = CR /\ k < Len(t) /\ t[k + 1] = NL)
len_lines(b) == 1 + Cardinality({k \in 1..Len(b.text) : IsLineBreak(b.text, k)})

Panic(b) == [b EXCEPT !.panicked = TRUE]

(***************************************************************************)
(* Row and column calculation.                                             *)
(***************************************************************************)
get_row(b) ==
    Cardinality({k \in 1..Min(b.cursor_idx, Len(b.text)) : b.text[k] = NL})

get_row_start(b) ==
    LET S == {k \in 1..Min(b.cursor_idx, Len(b.text)) : b.text[k] = NL}
    IN  IF S = {} THEN 0 ELSE SetMax(S)

get_row_end(b) ==
    LET S == {k \in (b.cursor_idx + 1)..Len(b.text) : b.text[k] = NL}
    IN  IF S = {} THEN Len(b.text) ELSE SetMin(S) - 1

\* negative when cursor_idx > len_chars: the source's usize subtraction overflows
get_row_len(b) ==
    LET S == {k \in (b.cursor_idx + 1)..Len(b.text) : b.text[k] = NL}
    IN  IF S = {} THEN Len(b.text) - b.cursor_idx
        ELSE (SetMin(S) - 1) - b.cursor_idx

get_col(b) == b.cursor_idx - get_row_start(b)

RECURSIVE StepDown(_, _)
StepDown(cam, v) == IF v < cam THEN StepDown(cam - 1, v) ELSE cam
RECURSIVE StepUp(_, _, _)
StepUp(cam, v, extent) == IF v >= cam + extent THEN StepUp(cam + 1, v, extent) ELSE cam

adj_camera(b) ==
    LET row == get_row(b)
        col == get_col(b)
    IN  [b EXCEPT !.camera =
            [row |-> StepUp(StepDown(b.camera.row, row), row, size.height),
             col |-> StepUp(StepDown(b.camera.col, col), col, size.width)]]

(***************************************************************************)
(* Cursor movement.                                                        *)
(***************************************************************************)
cursor_up(b) ==
    IF get_row(b) = 0 THEN b
    ELSE LET col == get_col(b)
             b1 == [b EXCEPT !.cursor_idx = get_row_start(b) - 1]
             b2 == [b1 EXCEPT !.cursor_idx = get_row_start(b1)]
             b3 == [b2 EXCEPT !.cursor_idx = @ + Min(col, get_row_len(b2))]
         IN  adj_camera(b3)

cursor_down(b) ==
    IF get_row(b) = len_lines(b) - 1 THEN b
    ELSE LET col == get_col(b)
             b1 == [b EXCEPT !.cursor_idx = get_row_end(b) + 1]
             rl == get_row_len(b1)
         IN  IF rl < 0
             THEN \* len_chars() - i overflows: a panic with overflow checks,
                  \* a huge value without (min(col, huge) = col)
                  IF build = "debug" THEN Panic(b1)
                  ELSE adj_camera([b1 EXCEPT !.cursor_idx = @ + col])
             ELSE adj_camera([b1 EXCEPT !.cursor_idx = @ + Min(col, rl)])

cursor_forward(b) ==
    adj_camera(IF b.cursor_idx < Len(b.text)
               THEN [b EXCEPT !.cursor_idx = @ + 1] ELSE b)

cursor_backward(b) ==
    adj_camera(IF b.cursor_idx > 0
               THEN [b EXCEPT !.cursor_idx = @ - 1] ELSE b)

RECURSIVE FwdTabPad(_)
FwdTabPad(b) ==
    IF b.cursor_idx < Len(b.text) /\ b.text[b.cursor_idx + 1] = TAB_PAD
    THEN FwdTabPad(cursor_forward(b)) ELSE b

RECURSIVE FwdSpaces(_)
FwdSpaces(b) ==
    IF /\ b.cursor_idx < Len(b.text)
       /\ b.text[b.cursor_idx + 1] = SPACE
       /\ get_col(b) % setting.tab_size # 0
    THEN FwdSpaces(cursor_forward(b)) ELSE b

cursor_forward_action(b) ==
    LET b1 == cursor_forward(b)
    IN  IF b1.cursor_idx > 0
        THEN IF is_hangul(b1.text[b1.cursor_idx]) THEN cursor_forward(b1)
             ELSE IF b1.text[b1.cursor_idx] = TAB THEN FwdTabPad(cursor_forward(b1))
             ELSE IF b1.text[b1.cursor_idx] = SPACE
                  THEN IF (get_col(b1) - 1) % setting.tab_size = 0
                       THEN FwdSpaces(b1) ELSE b1
             ELSE b1
        ELSE b1

RECURSIVE BwdTabPad(_)
BwdTabPad(b) ==
    IF b.cursor_idx > 0 /\ b.text[b.cursor_idx] = TAB_PAD
    THEN BwdTabPad(cursor_backward(b)) ELSE b

RECURSIVE BwdSpaces(_)
BwdSpaces(b) ==
    IF /\ b.cursor_idx > 0
       /\ b.text[b.cursor_idx] = SPACE
       /\ get_col(b) % setting.tab_size # 0
    THEN BwdSpaces(cursor_backward(b)) ELSE b

cursor_backward_action(b) ==
    LET b1 == cursor_backward(b)
    IN  IF b1.cursor_idx > 0
        THEN IF is_hangul(b1.text[b1.cursor_idx]) THEN cursor_backward(b1)
             ELSE IF b1.text[b1.cursor_idx] = TAB_PAD
                  THEN cursor_backward(BwdTabPad(b1))
             ELSE IF b1.text[b1.cursor_idx] = SPACE
                  THEN IF (get_col(b1) + 1) % setting.tab_size = 0
                       THEN BwdSpaces(b1) ELSE b1
             ELSE b1
        ELSE b1

cursor_start(b) ==
    LET S == {j \in 0..(b.cursor_idx - 1) : b.text[j + 1] = NL}
    IN  IF S # {} THEN [b EXCEPT !.cursor_idx = SetMax(S) + 1]
        ELSE adj_camera(b)

cursor_end(b) ==
    LET S == {j \in b.cursor_idx..(Len(b.text) - 1) : b.text[j + 1] = NL}
    IN  IF S # {} THEN [b EXCEPT !.cursor_idx = SetMin(S)]
        ELSE adj_camera(b)

RECURSIVE SkipFwd(_, _, _)
SkipFwd(t, j, ws) ==
    IF j < Len(t) /\ is_whitespace(t[j + 1]) = ws THEN SkipFwd(t, j + 1, ws) ELSE j

RECURSIVE SkipBwd(_, _, _)
SkipBwd(t, j, ws) ==
    IF j > 0 /\ is_whitespace(t[j]) = ws THEN SkipBwd(t, j - 1, ws) ELSE j

cursor_forward_word(b) ==
    adj_camera([b EXCEPT !.cursor_idx =
                    SkipFwd(b.text, SkipFwd(b.text, b.cursor_idx, TRUE), FALSE)])

cursor_backward_word(b) ==
    adj_camera([b EXCEPT !.cursor_idx =
                    SkipBwd(b.text, SkipBwd(b.text, b.cursor_idx, TRUE), FALSE)])

(***************************************************************************)
(* Text manipulation.                                                      *)
(***************************************************************************)
insert_char(b, c0, upper) ==
    LET c  == IF upper THEN c0 ELSE to_lowercase(c0)
        b1 == cursor_forward([b EXCEPT !.text = RopeInsert(@, b.cursor_idx, <<c>>)])
        b2 == IF is_hangul(c)
              THEN cursor_forward([b1 EXCEPT !.text =
                                       RopeInsert(@, b1.cursor_idx, <<HANGUL_PAD>>)])
              ELSE b1
    IN  [b2 EXCEPT !.saved = FALSE]

insert_str(b, s) ==
    [cursor_forward([b EXCEPT !.text = RopeInsert(@, b.cursor_idx, s)])
        EXCEPT !.saved = FALSE]

insert_newline(b) ==
    [cursor_forward(insert_char(b, NL, TRUE)) EXCEPT !.saved = FALSE]

RECURSIVE InsertRun(_, _, _)
InsertRun(b, c, n) ==
    IF n <= 0 THEN b
    ELSE InsertRun(cursor_forward([b EXCEPT !.text = RopeInsert(@, b.cursor_idx, <<c>>)]),
                   c, n - 1)

\* a variant of insert_tab that inserts a whole tab_size at every column
insert_tab_full(b) ==
    LET b1 == IF setting.tab_type = "Space"
              THEN InsertRun(b, SPACE, setting.tab_size)
              ELSE InsertRun(InsertRun(b, TAB, 1), TAB_PAD, setting.tab_size - 1)
    IN  [b1 EXCEPT !.saved = FALSE]

insert_tab(b) ==
    LET tab_size == setting.tab_size - (get_col(b) % setting.tab_size)
        b1 == IF setting.tab_type = "Space"
              THEN InsertRun(b, SPACE, tab_size)
              ELSE InsertRun(InsertRun(b, TAB, 1), TAB_PAD, tab_size - 1)
    IN  [b1 EXCEPT !.saved = FALSE]

insert_newline_above(b) ==
    [b EXCEPT !.text = RopeInsert(@, get_row_start(b), <<NL>>), !.saved = FALSE]

insert_newline_below(b) ==
    [b EXCEPT !.text = RopeInsert(@, get_row_end(b), <<NL>>), !.saved = FALSE]

delete(b) ==
    IF Len(b.text) > 0 /\ b.cursor_idx > 0
    THEN cursor_backward([b EXCEPT !.text =
                              RopeRemove(@, b.cursor_idx - 1, b.cursor_idx)])
    ELSE b

\* chars is the snapshot of the text taken when delete_action starts
RECURSIVE DelSpaces(_, _)
DelSpaces(b, chars) ==
    IF /\ b.cursor_idx > 0
       /\ chars[b.cursor_idx] = SPACE
       /\ get_col(b) % setting.tab_size # 0
    THEN DelSpaces(cursor_backward([b EXCEPT !.text =
                       RopeRemove(@, b.cursor_idx - 1, b.cursor_idx)]), chars)
    ELSE b

\* while chars[cursor_idx - 1] == '\x02': at cursor_idx = 0 the index
\* computation overflows (debug) or is out of range (release): a panic
RECURSIVE DelTabPad(_, _)
DelTabPad(b, chars) ==
    IF b.cursor_idx = 0 THEN Panic(b)
    ELSE IF chars[b.cursor_idx] = TAB_PAD THEN DelTabPad(delete(b), chars)
    ELSE b

delete_action(b) ==
    LET chars == b.text
        b1 == IF b.cursor_idx > 0
              THEN IF chars[b.cursor_idx] = SPACE /\ get_col(b) % setting.tab_size = 0
                   THEN DelSpaces(delete(b), chars)
                   ELSE IF /\ chars[b.cursor_idx] = HANGUL_PAD
                           /\ b.cursor_idx > 1
                           /\ is_hangul(chars[b.cursor_idx - 1])
                   THEN cursor_backward(cursor_backward(
                            [b EXCEPT !.text =
                                 RopeRemove(@, b.cursor_idx - 2, b.cursor_idx)]))
                   ELSE IF chars[b.cursor_idx] = TAB_PAD
                   THEN LET b2 == DelTabPad(b, chars)
                        IN  IF b2.panicked THEN b2 ELSE delete(b2)
                   ELSE delete(b)
              ELSE b
    IN  IF b1.panicked THEN b1 ELSE [b1 EXCEPT !.saved = FALSE]

delete_back(b) ==
    [(IF Len(b.text) > 0 /\ b.cursor_idx < Len(b.text)
      THEN [b EXCEPT !.text = RopeRemove(@, b.cursor_idx, b.cursor_idx + 1)]
      ELSE b) EXCEPT !.saved = FALSE]

(***************************************************************************)
(* Actions (struct Action) and effects (enum ActionReturn).                *)
(* An argument is an Option<String>.                                       *)
(***************************************************************************)
None == [some |-> FALSE, s |-> <<>>]
Some(str) == [some |-> TRUE, s |-> str]
Act(name, args) == [name |-> name, args |-> args]
NoAction == Act("", <<>>)

Eff(type) == [type |-> type, n |-> 0, s |-> "", act |-> NoAction, line |-> <<>>]

\* Buffer::process_action for the editing actions: the new buffer and the
\* effects returned.  Indexing args[0] of an empty list, unwrapping an absent
\* argument and taking the first character of an empty string panic.
FirstCharMissing(a) ==
    Len(a.args) = 0 \/ ~a.args[1].some \/ Len(a.args[1].s) = 0

BufferEdit(b, a) ==
    CASE a.name = "CursorUp" -> cursor_up(b)
      [] a.name = "CursorDown" -> cursor_down(b)
      [] a.name = "CursorForward" -> cursor_forward_action(b)
      [] a.name = "CursorBackward" -> cursor_backward_action(b)
      [] a.name = "CursorForwardWord" -> cursor_forward_word(b)
      [] a.name = "CursorBackwardWord" -> cursor_backward_word(b)
      [] a.name = "CursorStart" -> cursor_start(b)
      [] a.name = "CursorEnd" -> cursor_end(b)
      [] a.name = "Insert" ->
            IF FirstCharMissing(a) THEN Panic(b)
            ELSE insert_char(b, a.args[1].s[1], FALSE)
      [] a.name = "InsertUpper" ->
            IF FirstCharMissing(a) THEN Panic(b)
            ELSE insert_char(b, a.args[1].s[1], TRUE)
      [] a.name = "InsertStr" ->
            IF Len(a.args) = 0 \/ ~a.args[1].some THEN Panic(b)
            ELSE insert_str(b, a.args[1].s)
      [] a.name = "InsertNewline" -> insert_newline(b)
      [] a.name = "InsertNewlineAbove" -> insert_newline_above(b)
      [] a.name = "InsertNewlineBelow" -> insert_newline_below(b)
      [] a.name = "InsertSpace" -> insert_str(b, <<SPACE>>)
      [] a.name = "InsertComma" -> insert_str(b, <<COMMA>>)
      [] a.name = "InsertTab" -> insert_tab(b)
      [] a.name = "Delete" -> delete_action(b)
      [] a.name = "DeleteBack" -> delete_back(b)
      [] OTHER -> b

(***************************************************************************)
(* The Buffer tab as a state machine: one step per action processed.       *)
(***************************************************************************)
\* Buffer::open: the rope read from the file, then every character of the
\* file inserted again at its index, with the padding after tabs and hangul
RECURSIVE OpenLoop(_, _, _)
OpenLoop(rope, chars, i) ==
    IF i >= Len(chars) THEN rope
    ELSE LET c == chars[i + 1]
         IN  IF c = TAB
             THEN OpenLoop(RopeInsert(RopeInsert(rope, i, <<TAB>>), i + 1,
                                      <<TAB_PAD, TAB_PAD, TAB_PAD>>), chars, i + 1)
             ELSE IF is_hangul(c)
             THEN OpenLoop(RopeInsert(RopeInsert(rope, i, <<c>>), i + 1,
                                      <<HANGUL_PAD>>), chars, i + 1)
             ELSE OpenLoop(RopeInsert(rope, i, <<c>>), chars, i + 1)

open(file) == OpenLoop(file, file, 0)

from_file(file) ==
    [text |-> open(file), cursor_idx |-> 0, camera |-> [row |-> 0, col |-> 0],
     saved |-> TRUE, panicked |-> FALSE, path |-> TRUE]

\* Rope::bytes: the UTF-8 encoding of the characters of the rope
Utf8(c) ==
    IF c < 128 THEN <<c>>
    ELSE IF c < 2048 THEN <<192 + (c \div 64), 128 + (c % 64)>>
    ELSE <<224 + (c \div 4096), 128 + ((c \div 64) % 64), 128 + (c % 64)>>

RECURSIVE bytes(_)
bytes(t) == IF t = <<>> THEN <<>> ELSE Utf8(Head(t)) \o bytes(Tail(t))

\* buffer.rs 145: if b != 0 || b != 1 || b != 2
Kept(b) == b # 0 \/ b # HANGUL_PAD \/ b # TAB_PAD

\* Buffer::save: the bytes kept are written to the path given or else to the
\* path of the buffer; without either, and when the file cannot be created
\* or written, the error is returned and saved stays as it is
save(b, given, io) ==
    IF (given \/ b.path) /\ io
    THEN [ok |-> TRUE, buffer |-> [b EXCEPT !.saved = TRUE],
          disk |-> [some |-> TRUE, s |-> SelectSeq(bytes(b.text), Kept),
                    saves |-> disk.saves + 1]]
    ELSE [ok |-> FALSE, buffer |-> b, disk |-> disk]

\* the keymap resolver at rest: no keymap loaded, no key read
NoneStr == [kind |-> "none", s |-> <<>>]
KeyIdle ==
    /\ keymap = <<>>
    /\ keymap_reversed = <<>>
    /\ key = {}
    /\ resolved = NoneStr

\* no call of parse_action under study
ParseIdle ==
    /\ parse_input = <<>>
    /\ parse_output = <<>>

\* no file read or written
NoFile == [some |-> FALSE, s |-> <<>>, saves |-> 0]
DiskIdle == disk = NoFile

\* the editor before run: no tab, no task started
EditorIdle ==
    /\ tabs = <<>>
    /\ running = FALSE
    /\ state = "Normal"
    /\ line_input = <<>>
    /\ action_channel = <<>>
    /\ resolved_in = <<>>
    /\ alart_channel = <<>>
    /\ proc = <<>>
    /\ locks = <<>>
    /\ renderer = "idle"
    /\ event_handler = "idle"
    /\ reader = 0
    /\ editor_size = <<>>
    /\ resize_events = <<>>
    /\ created = 0

NewBuffer ==
    [text |-> <<>>, cursor_idx |-> 0, camera |-> [row |-> 0, col |-> 0],
     saved |-> FALSE, panicked |-> FALSE, path |-> FALSE]

Settings == [tab_size : 2..MaxTabSize, tab_type : {"Space", "Tab"}]

InitBuffer ==
    /\ build \in {"debug", "release"}
    /\ setting \in Settings
    /\ size = [width |-> ViewWidth, height |-> ViewHeight]
    /\ buffer = NewBuffer
    /\ KeyIdle
    /\ EditorIdle
    /\ ParseIdle
    /\ DiskIdle

\* An action is processed by a live task on a buffer whose cursor is in the
\* rope (every operation indexes the rope by the cursor); the document
\* explored does not grow beyond MaxLen.
Live == ~buffer.panicked /\ buffer.cursor_idx <= Len(buffer.text)
Fits(b) == Len(b.text) <= MaxLen \/ Len(b.text) <= Len(buffer.text)
Processed(a) == BufferEdit(buffer, a)

CursorUp ==
    /\ Live
    /\ buffer' = Processed(Act("CursorUp", <<>>))
    /\ UNCHANGED <<build, setting, size, keyvars, edvars, parsevars, termvars, disk>>
CursorDown ==
    /\ Live
    /\ buffer' = Processed(Act("CursorDown", <<>>))
    /\ UNCHANGED <<build, setting, size, keyvars, edvars, parsevars, termvars, disk>>
CursorForward ==
    /\ Live
    /\ buffer' = Processed(Act("CursorForward", <<>>))
    /\ UNCHANGED <<build, setting, size, keyvars, edvars, parsevars, termvars, disk>>
CursorBackward ==
    /\ Live
    /\ buffer' = Processed(Act("CursorBackward", <<>>))
    /\ UNCHANGED <<build, setting, size, keyvars, edvars, parsevars, termvars, disk>>
CursorForwardWord ==
    /\ Live
    /\ buffer' = Processed(Act("CursorForwardWord", <<>>))
    /\ UNCHANGED <<build, setting, size, keyvars, edvars, parsevars, termvars, disk>>
CursorBackwardWord ==
    /\ Live
    /\ buffer' = Processed(Act("CursorBackwardWord", <<>>))
    /\ UNCHANGED <<build, setting, size, keyvars, edvars, parsevars, termvars, disk>>
CursorStart ==
    /\ Live
    /\ buffer' = Processed(Act("CursorStart", <<>>))
    /\ UNCHANGED <<build, setting, size, keyvars, edvars, parsevars, termvars, disk>>
CursorEnd ==
    /\ Live
    /\ buffer' = Processed(Act("CursorEnd", <<>>))
    /\ UNCHANGED <<build, setting, size, keyvars, edvars, parsevars, termvars, disk>>
\* a key chord carries its letter in upper case (keycode_to_key)
Insert ==
    \E c \in {65, 54620} :
        /\ Live
        /\ Fits(Processed(Act("Insert", <<Some(<<c>>)>>)))
        /\ buffer' = Processed(Act("Insert", <<Some(<<c>>)>>))
        /\ UNCHANGED <<build, setting, size, keyvars, edvars, parsevars, termvars, disk>>
InsertUpper ==
    /\ Live
    /\ Fits(Processed(Act("InsertUpper", <<Some(<<65>>)>>)))
    /\ buffer' = Processed(Act("InsertUpper", <<Some(<<65>>)>>))
    /\ UNCHANGED <<build, setting, size, keyvars, edvars, parsevars, termvars, disk>>
InsertStr ==
    \E s \in {<<97>>, <<97, 97>>} :
        /\ Live
        /\ Fits(Processed(Act("InsertStr", <<Some(s)>>)))
        /\ buffer' = Processed(Act("InsertStr", <<Some(s)>>))
        /\ UNCHANGED <<build, setting, size, keyvars, edvars, parsevars, termvars, disk>>
InsertNewline ==
    /\ Live
    /\ Fits(Processed(Act("InsertNewline", <<>>)))
    /\ buffer' = Processed(Act("InsertNewline", <<>>))
    /\ UNCHANGED <<build, setting, size, keyvars, edvars, parsevars, termvars, disk>>
InsertNewlineAbove ==
    /\ Live
    /\ Fits(Processed(Act("InsertNewlineAbove", <<>>)))
    /\ buffer' = Processed(Act("InsertNewlineAbove", <<>>))
    /\ UNCHANGED <<build, setting, size, keyvars, edvars, parsevars, termvars, disk>>
InsertNewlineBelow ==
    /\ Live
    /\ Fits(Processed(Act("InsertNewlineBelow", <<>>)))
    /\ buffer' = Processed(Act("InsertNewlineBelow", <<>>))
    /\ UNCHANGED <<build, setting, size, keyvars, edvars, parsevars, termvars, disk>>
InsertSpace ==
    /\ Live
    /\ Fits(Processed(Act("InsertSpace", <<>>)))
    /\ buffer' = Processed(Act("InsertSpace", <<>>))
    /\ UNCHANGED <<build, setting, size, keyvars, edvars, parsevars, termvars, disk>>
InsertComma ==
    /\ Live
    /\ Fits(Processed(Act("InsertComma", <<>>)))
    /\ buffer' = Processed(Act("InsertComma", <<>>))
    /\ UNCHANGED <<build, setting, size, keyvars, edvars, parsevars, termvars, disk>>
InsertTab ==
    /\ Live
    /\ Fits(Processed(Act("InsertTab", <<>>)))
    /\ buffer' = Processed(Act("InsertTab", <<>>))
    /\ UNCHANGED <<build, setting, size, keyvars, edvars, parsevars, termvars, disk>>
Delete ==
    /\ Live
    /\ buffer' = Processed(Act("Delete", <<>>))
    /\ UNCHANGED <<build, setting, size, keyvars, edvars, parsevars, termvars, disk>>
DeleteBack ==
    /\ Live
    /\ buffer' = Processed(Act("DeleteBack", <<>>))
    /\ UNCHANGED <<build, setting, size, keyvars, edvars, parsevars, termvars, disk>>

MotionStep ==
    \/ CursorUp \/ CursorDown \/ CursorForward \/ CursorBackward
    \/ CursorForwardWord \/ CursorBackwardWord \/ CursorStart \/ CursorEnd

NextBuffer ==
    \/ CursorUp \/ CursorDown \/ CursorForward \/ CursorBackward
    \/ CursorForwardWord \/ CursorBackwardWord \/ CursorStart \/ CursorEnd
    \/ Insert \/ InsertUpper \/ InsertStr \/ InsertNewline
    \/ InsertNewlineAbove \/ InsertNewlineBelow \/ InsertSpace \/ InsertComma
    \/ InsertTab \/ Delete \/ DeleteBack

vars == <<build, buffer, setting, size, keymap, keymap_reversed, key, resolved,
          tabs, running, state, line_input, action_channel, resolved_in, alart_channel,
          proc, locks, renderer, event_handler, reader, created,
          parse_input, parse_output, disk, editor_size, resize_events>>

SpecBuffer == InitBuffer /\ [][NextBuffer]_vars

\* The Buffer tab opened on a file: the characters a file of the model holds
\* are a letter, a tab, a hangul syllable, a line feed and a carriage return.
FileChars == {97, TAB, 54620, NL, CR}
Files == UNION {[1..n -> FileChars] : n \in 0..MaxFileLen}

InitFile ==
    /\ build \in {"debug", "release"}
    /\ setting \in Settings
    /\ size = [width |-> ViewWidth, height |-> ViewHeight]
    /\ \E f \in Files : buffer = from_file(f)
    /\ KeyIdle
    /\ EditorIdle
    /\ ParseIdle
    /\ DiskIdle

SpecFile == InitFile /\ [][NextBuffer]_vars

\* the writes explored are not yet made
Unsaved == disk.saves < MaxSaves

\* Buffer::process_action, "Save": without a path the prompt is returned and
\* nothing is written, else save(None)
Save ==
    /\ Live
    /\ Unsaved
    /\ \E io \in BOOLEAN :
          LET r == save(buffer, FALSE, io)
          IN  /\ buffer' = r.buffer
              /\ disk' = r.disk
    /\ UNCHANGED <<build, setting, size, keyvars, edvars, parsevars, termvars>>

\* Buffer::process_action, "SaveAs" with a file name: save(Some(name)), and
\* the name becomes the path of the buffer when the write succeeds
SaveAs ==
    /\ Live
    /\ Unsaved
    /\ \E io \in BOOLEAN :
          LET r == save(buffer, TRUE, io)
          IN  /\ buffer' = IF r.ok THEN [r.buffer EXCEPT !.path = TRUE] ELSE r.buffer
              /\ disk' = r.disk
    /\ UNCHANGED <<build, setting, size, keyvars, edvars, parsevars, termvars>>

\* The Buffer tab with its file: a new buffer without a file, or a buffer
\* loaded from a file, edited and saved.
InitSave ==
    /\ build \in {"debug", "release"}
    /\ setting \in Settings
    /\ size = [width |-> ViewWidth, height |-> ViewHeight]
    /\ \/ buffer = NewBuffer /\ disk = NoFile
       \/ \E f \in {g \in Files : Len(g) <= MaxSaveFileLen} :
                            /\ buffer = from_file(f)
                            /\ disk = [some |-> TRUE, s |-> bytes(f), saves |-> 0]
    /\ KeyIdle
    /\ EditorIdle
    /\ ParseIdle

\* the document is edited up to the write
NextSave == (Unsaved /\ NextBuffer) \/ Save \/ SaveAs

SpecSave == InitSave /\ [][NextSave]_vars

(***************************************************************************)
(* Properties of the Buffer tab.                                           *)
(***************************************************************************)
\* the derived row of the last line: the newline characters of the document
LastRow(b) == Cardinality({k \in 1..Len(b.text) : b.text[k] = NL})

CursorInRange(b) == 0 <= b.cursor_idx /\ b.cursor_idx <= Len(b.text)

\* C1: after every Buffer action 0 <= cursor_idx <= document length; CursorUp
\* on row 0 and CursorDown on the last row leave the cursor index unchanged.
C1_CursorClamp ==
    [][NextBuffer =>
        /\ ~buffer'.panicked => CursorInRange(buffer')
        /\ (CursorUp /\ get_row(buffer) = 0)
              => buffer'.cursor_idx = buffer.cursor_idx
        /\ (CursorDown /\ get_row(buffer) = LastRow(buffer))
              => buffer'.cursor_idx = buffer.cursor_idx]_vars

PaddingOK(t) ==
    \A k \in 1..Len(t) :
        /\ t[k] = HANGUL_PAD => (k > 1 /\ is_hangul(t[k - 1]))
        /\ t[k] = TAB_PAD => (k > 1 /\ t[k - 1] \in {TAB, TAB_PAD})

\* C2: from an empty Buffer, after any sequence of Buffer actions every
\* wide-continuation sentinel directly follows a double-cell glyph and every
\* run of tab-continuation sentinels directly follows a tab character.
C2_PaddingInvariant == PaddingOK(buffer.text)

Contained(b) ==
    /\ b.camera.row <= get_row(b) /\ get_row(b) < b.camera.row + size.height
    /\ b.camera.col <= get_col(b) /\ get_col(b) < b.camera.col + size.width

\* C4: after any cursor-motion action the derived cursor row and column lie
\* inside the camera's viewport.
C4_CameraContainment ==
    [][(MotionStep /\ ~buffer'.panicked) => Contained(buffer')]_vars

\* the cursor is not strictly inside a unit: the character at the cursor is
\* no continuation sentinel
OnUnitBoundary(b) ==
    b.cursor_idx < Len(b.text) => b.text[b.cursor_idx + 1] \notin {HANGUL_PAD, TAB_PAD}

\* C5: on a document that satisfies the padding invariant, from a cursor on a
\* unit boundary and not at the document end, CursorForward then
\* CursorBackward returns the cursor to the original index.
C5_RoundTrip ==
    (/\ ~buffer.panicked
     /\ PaddingOK(buffer.text)
     /\ OnUnitBoundary(buffer)
     /\ buffer.cursor_idx < Len(buffer.text))
    => cursor_backward_action(cursor_forward_action(buffer)).cursor_idx
         = buffer.cursor_idx

(***************************************************************************)
(* The keymap resolver (src/src/key.rs).                                   *)
(* A key is a variant of enum Key with its payload (the character of       *)
(* Char, 0 otherwise); a chord is a set of keys (BTreeSet<Key>); a Command *)
(* is a set of chords (BTreeSet<BTreeSet<Key>>).  An action template is a  *)
(* sequence of tokens.                                                     *)
(***************************************************************************)
MkKey(v, c) == [v |-> v, c |-> c]
CharAny == MkKey("CharAny", 0)
Ctrl == MkKey("Ctrl", 0)
Alt == MkKey("Alt", 0)
Shift == MkKey("Shift", 0)
Char(c) == MkKey("Char", c)
Enter == MkKey("Enter", 0)

\* the declaration order of enum Key, which derive(Ord) compares first
VariantIndex(v) ==
    CASE v = "CharAny" -> 0 [] v = "Ctrl" -> 1 [] v = "Alt" -> 2
      [] v = "Shift" -> 3 [] v = "Char" -> 4 [] v = "Enter" -> 8

KeyLess(a, b) ==
    \/ VariantIndex(a.v) < VariantIndex(b.v)
    \/ (a.v = b.v /\ a.c < b.c)

\* iteration of a BTreeSet: ascending
RECURSIVE SortedKeys(_)
SortedKeys(chord) ==
    IF chord = {} THEN <<>>
    ELSE LET m == CHOOSE x \in chord : \A y \in chord \ {x} : KeyLess(x, y)
         IN  <<m>> \o SortedKeys(chord \ {m})

RECURSIVE SeqLess(_, _)
SeqLess(x, y) ==
    IF x = <<>> THEN y # <<>>
    ELSE IF y = <<>> THEN FALSE
    ELSE IF KeyLess(x[1], y[1]) THEN TRUE
    ELSE IF KeyLess(y[1], x[1]) THEN FALSE
    ELSE SeqLess(Tail(x), Tail(y))

ChordLess(x, y) == SeqLess(SortedKeys(x), SortedKeys(y))

RECURSIVE SortedChords(_)
SortedChords(command) ==
    IF command = {} THEN <<>>
    ELSE LET m == CHOOSE x \in command : \A y \in command \ {x} : ChordLess(x, y)
         IN  <<m>> \o SortedChords(command \ {m})

is_char(k) == k.v = "Char"

\* char::to_string for the characters of the model's chords
CharToString(c) ==
    CASE c = 67 -> "C" [] c = 83 -> "S" [] c = 88 -> "X"

SomeStr(t) == [kind |-> "some", s |-> t]
PanicStr == [kind |-> "panic", s |-> <<>>]

\* action.find("$char") and rtn.replace_range(idx..idx+5, &c.to_string())
HasPlaceholder(action) == \E i \in 1..Len(action) : action[i] = "$char"
FindPlaceholder(action) ==
    SetMin({i \in 1..Len(action) : action[i] = "$char"})
ReplacePlaceholder(action, c) ==
    [action EXCEPT ![FindPlaceholder(action)] = CharToString(c)]

\* a variant of MatchChord that compares the configured chord with the
\* wildcard still in it
MatchChordKeepWildcard(k, action, input) ==
    IF k = input THEN SomeStr(action)
    ELSE IF CharAny \in k /\ \E x \in input : is_char(x)
    THEN LET char_code == SortedKeys({x \in input : is_char(x)})[1]
             rest == {x \in input : ~is_char(x)}
         IN  IF rest = k /\ HasPlaceholder(action)
             THEN SomeStr(ReplacePlaceholder(action, char_code.c))
             ELSE NoneStr
    ELSE NoneStr

\* one chord k of a command against the input chord: the value returned,
\* or NoneStr when the loop goes on
MatchChord(k, action, input) ==
    IF k = input THEN SomeStr(action)
    ELSE IF CharAny \in k /\ \E x \in input : is_char(x)
    THEN LET com == k \ {CharAny}
             char_code == SortedKeys({x \in input : is_char(x)})[1]
             rest == {x \in input : ~is_char(x)}
         IN  IF rest = com
             THEN IF HasPlaceholder(action)
                  THEN SomeStr(ReplacePlaceholder(action, char_code.c))
                  ELSE PanicStr
             ELSE NoneStr
    ELSE NoneStr

RECURSIVE ScanChords(_, _, _)
ScanChords(chords, action, input) ==
    IF chords = <<>> THEN NoneStr
    ELSE LET r == MatchChord(chords[1], action, input)
         IN  IF r # NoneStr THEN r ELSE ScanChords(Tail(chords), action, input)

\* a variant of ScanCommands that gives up after the first command
ScanFirstCommandOnly(reversed, input) ==
    IF reversed = <<>> THEN NoneStr
    ELSE ScanChords(SortedChords(reversed[1].command), reversed[1].action, input)

RECURSIVE ScanCommands(_, _)
ScanCommands(reversed, input) ==
    IF reversed = <<>> THEN NoneStr
    ELSE LET r == ScanChords(SortedChords(reversed[1].command),
                             reversed[1].action, input)
         IN  IF r # NoneStr THEN r ELSE ScanCommands(Tail(reversed), input)

get_action(input) == ScanCommands(keymap_reversed, input)

\* open_keymaps: keymap_reversed holds one entry per distinct Command (a
\* later insert of an equal Command replaces the earlier one), and a HashMap
\* iterates its entries in an arbitrary order
Entries(km) ==
    {g \in [{km[t] : t \in DOMAIN km} -> DOMAIN km] : \A cmd \in DOMAIN g : km[g[cmd]] = cmd}
Orders(g) ==
    {q \in [1..Cardinality(DOMAIN g) -> {[command |-> cmd, action |-> g[cmd]] : cmd \in DOMAIN g}] :
        \A i, j \in DOMAIN q : i # j => q[i] # q[j]}
open_keymaps(km) == UNION {Orders(g) : g \in Entries(km)}

\* the keymaps and key events of the model
Templates == {<<"Save">>, <<"Insert(", "$char", ")">>}
ChordPool ==
    {{Ctrl, Char(83)}, {CharAny}, {Ctrl, CharAny}, {Char(88)}, {Enter}}
Commands == {c \in SUBSET ChordPool : c # {} /\ Cardinality(c) <= MaxChords}
Keymaps == UNION {[T -> Commands] : T \in SUBSET Templates}
InputChords ==
    {{Ctrl, Char(83)}, {Ctrl, Char(67)}, {Char(88)}, {Ctrl, Char(88)},
     {Shift, Char(88)}, {Char(83)}, {Enter}}

BufferIdle ==
    /\ build = "debug"
    /\ setting = [tab_size |-> 2, tab_type |-> "Space"]
    /\ size = [width |-> ViewWidth, height |-> ViewHeight]
    /\ buffer = NewBuffer

InitKey ==
    /\ BufferIdle
    /\ keymap \in Keymaps
    /\ keymap_reversed \in open_keymaps(keymap)
    /\ key = {}
    /\ resolved = NoneStr
    /\ EditorIdle
    /\ ParseIdle
    /\ DiskIdle

\* EventHandler::run on a key event: the chord read is resolved
ReadKey ==
    \E input \in InputChords :
        /\ key' = input
        /\ resolved' = get_action(input)
        /\ UNCHANGED <<build, buffer, setting, size, keymap, keymap_reversed, edvars, parsevars, termvars, disk>>

NextKey == ReadKey

SpecKey == InitKey /\ [][NextKey]_vars

(***************************************************************************)
(* Properties of the keymap resolver.                                      *)
(***************************************************************************)
\* the chords of the keymap, each with the template that claims it
Bindings == {<<t, k>> \in Templates \X ChordPool : t \in DOMAIN keymap /\ k \in keymap[t]}

\* a configured chord with the wildcard matches the input chord
WildcardMatches(k, input) ==
    /\ CharAny \in k
    /\ Cardinality({x \in input : is_char(x)}) = 1
    /\ k \ {CharAny} = {x \in input : ~is_char(x)}

Matching(input) ==
    {b \in Bindings : b[2] = input \/ WildcardMatches(b[2], input)}

\* C9: a literal chord bound to a template, with no other binding (literal or
\* wildcard) matching it, resolves to that template unchanged; a chord that
\* matches no literal and no wildcard chord resolves to no action.
C9_ChordResolution ==
    key # {} =>
        /\ \A b \in Bindings :
              (b[2] = key /\ Matching(key) = {b}) => resolved = SomeStr(b[1])
        /\ Matching(key) = {} => resolved = NoneStr

C9_Witness ==
    /\ key = {Ctrl, Char(83)}
    /\ resolved = SomeStr(<<"Save">>)
    /\ \E b \in Bindings : CharAny \in b[2]
    /\ Matching(key) = {<<(<<"Save">>), {Ctrl, Char(83)}>>}

C11_ExactMatchFirst ==
    key # {} =>
        \A b \in Bindings :
            (/\ b[2] = key
             /\ \A b2 \in Bindings : b2[2] = key => b2 = b
             /\ \A b2 \in Bindings : CharAny \in b2[2] => HasPlaceholder(b2[1])
             /\ \E b2 \in Bindings : b2[1] # b[1] /\ WildcardMatches(b2[2], key))
            => resolved = SomeStr(b[1])

(***************************************************************************)
(* The action grammar and the handlers (src/src/lib.rs,                    *)
(* src/src/actions.rs, src/src/lineinput.rs, src/src/tab).                 *)
(* An action string is a sequence of tokens: a word (a run of \w           *)
(* characters), "(", ")", ",", "$line", "$idx", or "?" (a character that   *)
(* is neither a word character nor one of the others).                     *)
(***************************************************************************)
MaxEvents == 3       \* key events the event stream delivers
MaxResizeKeys == 1   \* key events delivered beside the resize event
MaxChainKeys == 1    \* key events delivered to the fairly scheduled tasks
MaxLineLen == 3      \* longest text typed in the line input

\* usize arithmetic is modular; the model keeps a width of 16 bits
UsizeMod == 65536

IsWord(tok) == tok \notin {"(", ")", ",", "$line", "$idx", "?"}

\* the word tokens an action string starts with: what \w+ matches
WordRun(action) ==
    SetMax({n \in 0..Len(action) : \A i \in 1..n : IsWord(action[i])})

\* the string the tokens of a word spell
RECURSIVE JoinWords(_)
JoinWords(words) ==
    IF Len(words) = 1 THEN words[1]
    ELSE words[1] \o JoinWords(Tail(words))

\* the regex ^(\w+)(\((.+)\))?$
Matches(action) ==
    LET n == WordRun(action)
    IN  /\ n >= 1
        /\ \/ Len(action) = n
           \/ /\ Len(action) >= n + 3
              /\ action[n + 1] = "("
              /\ action[Len(action)] = ")"

\* str::split(',')
RECURSIVE Split(_)
Split(str) ==
    IF \A i \in 1..Len(str) : str[i] # "," THEN <<str>>
    ELSE LET i == SetMin({j \in 1..Len(str) : str[j] = ","})
         IN  <<SubSeq(str, 1, i - 1)>> \o Split(SubSeq(str, i + 1, Len(str)))

\* usize::to_string and str::parse::<usize> (-1: the parse fails)
DigitTokens == <<"0", "1", "2", "3", "4", "5", "6", "7", "8", "9">>
IdxToString(n) == IF n < 10 THEN DigitTokens[n + 1] ELSE "65535"
ParseUsize(str) ==
    IF Len(str) = 1 /\ \E d \in 1..10 : DigitTokens[d] = str[1]
    THEN (CHOOSE d \in 1..10 : DigitTokens[d] = str[1]) - 1
    ELSE -1

\* a variant of SubstArg that substitutes the line text even when it is empty
SubstArgKeepEmpty(piece, line, idx) ==
    IF piece = <<"$line">> THEN Some(line)
    ELSE IF piece = <<"$idx">> THEN Some(<<IdxToString(idx)>>)
    ELSE Some(piece)

SubstArg(piece, line, idx) ==
    IF piece = <<"$line">> THEN (IF Len(line) = 0 THEN None ELSE Some(line))
    ELSE IF piece = <<"$idx">> THEN Some(<<IdxToString(idx)>>)
    ELSE Some(piece)

parse_action(action, line, idx) ==
    IF ~Matches(action) THEN [ok |-> FALSE, action |-> NoAction]
    ELSE LET n == WordRun(action)
             name == JoinWords(SubSeq(action, 1, n))
         IN  IF Len(action) = n THEN [ok |-> TRUE, action |-> Act(name, <<>>)]
             ELSE LET pieces == Split(SubSeq(action, n + 2, Len(action) - 1))
                  IN  [ok |-> TRUE,
                       action |-> Act(name,
                                      [i \in 1..Len(pieces) |-> SubstArg(pieces[i], line, idx)])]

\* what a handler hands back: it panicked, or the effects it returned
Ok(effects) == [panic |-> FALSE, effects |-> effects]
Panicked == [panic |-> TRUE, effects |-> <<>>]

EffState(s) == [Eff("State") EXCEPT !.s = s]
EffNotice(s) == [Eff("Notice") EXCEPT !.s = s]
EffExcute(a) == [Eff("Excute") EXCEPT !.act = a]
EffExcuteLine(str) == [Eff("ExcuteLine") EXCEPT !.line = str]
EffErr(s) == [Eff("Err") EXCEPT !.s = s]
EffChangeTab(i) == [Eff("ChangeTab") EXCEPT !.n = i]
EffCloseTab(i) == [Eff("CloseTab") EXCEPT !.n = i]
EffNewBuffer(path) == [Eff("NewBuffer") EXCEPT !.line = path]
EffNewDir(path) == [Eff("NewDir") EXCEPT !.line = path]

\* actions::open; fs is what the path names: "file", "dir" or "none"
open_action(action, fs) ==
    IF Len(action.args) = 0 THEN Panicked
    ELSE IF ~action.args[1].some
    THEN Ok(<<EffState("LineInsert"), EffNotice("Enter file name: "),
              EffExcuteLine(<<"Open", "(", "$line", ")">>)>>)
    ELSE IF fs = "file"
    THEN Ok(<<EffNotice("Opened"), EffNewBuffer(action.args[1].s), EffState("Normal")>>)
    ELSE IF fs = "dir"
    THEN Ok(<<EffNotice("Opened"), EffNewDir(action.args[1].s), EffState("Normal")>>)
    ELSE Ok(<<EffNotice("is not a file"), EffState("LineInsert")>>)

\* actions::close_tab
close_tab(action) ==
    IF Len(action.args) = 0 THEN Panicked
    ELSE IF ~action.args[1].some THEN Panicked
    ELSE IF ParseUsize(action.args[1].s) < 0 THEN Panicked
    ELSE Ok(<<EffCloseTab(ParseUsize(action.args[1].s))>>)

\* the handler action_map holds for the action's name, if any
action_map(action, fs) ==
    CASE action.name = "NormalMode" -> Ok(<<EffState("Normal")>>)
      [] action.name = "CmdMode" -> Ok(<<EffState("Cmd")>>)
      [] action.name = "Quit" -> Ok(<<Eff("Stop")>>)
      [] action.name = "FindMode" -> Ok(<<EffState("Find")>>)
      [] action.name = "LineMode" -> Ok(<<EffState("LineInsert")>>)
      [] action.name = "NextTab" -> Ok(<<EffChangeTab(1)>>)
      [] action.name = "PrevTab" -> Ok(<<EffChangeTab(-1)>>)
      [] action.name = "Open" -> open_action(action, fs)
      [] action.name = "CloseTab" -> close_tab(action)
      [] action.name = "Shell" -> Ok(<<Eff("NewShell")>>)
      [] OTHER -> Ok(<<>>)

SavePrompt ==
    <<EffState("LineInsert"), EffNotice("Enter file name: "),
      EffExcute(Act("SaveAs", <<>>))>>

\* what a tab's handler hands back: the effects and the tab afterwards
TabOk(tab, effects) == [panic |-> FALSE, effects |-> effects, tab |-> tab]
TabPanicked(tab) == [panic |-> TRUE, effects |-> <<>>, tab |-> tab]

\* Buffer::process_action as the dispatcher sees it: the effects returned and
\* whether the buffer has a path afterwards; io tells whether the write succeeds
BufferHandler(tab, action, io) ==
    CASE action.name \in {"Insert", "InsertUpper"} ->
            IF FirstCharMissing(action) THEN TabPanicked(tab) ELSE TabOk(tab, <<>>)
      [] action.name = "InsertStr" ->
            IF Len(action.args) = 0 \/ ~action.args[1].some
            THEN TabPanicked(tab)
            ELSE TabOk(tab, <<>>)
      [] action.name = "Save" ->
            IF ~tab.path THEN TabOk(tab, SavePrompt)
            ELSE IF io THEN TabOk(tab, <<EffNotice("Saved"), EffState("Normal")>>)
            ELSE TabOk(tab, <<EffErr("save"), EffState("Normal")>>)
      [] action.name = "SaveAs" ->
            IF Len(action.args) = 0 THEN TabOk(tab, SavePrompt)
            ELSE IF ~action.args[1].some THEN TabPanicked(tab)
            ELSE IF io
            THEN TabOk([tab EXCEPT !.path = TRUE],
                       <<EffNotice("Saved"), EffState("Normal")>>)
            ELSE TabOk(tab, <<EffErr("save"), EffState("Normal")>>)
      [] OTHER -> TabOk(tab, <<>>)

\* Directory::process_action: Enter on an entry; fs is what the entry is,
\* "orphan" being the parent entry of a directory that has no parent
\* (directory.rs 94: self.path.parent().unwrap())
DirectoryHandler(tab, action, fs) ==
    IF action.name = "InsertNewline"
    THEN IF fs = "orphan" THEN TabPanicked(tab)
         ELSE IF fs = "dir"
         THEN TabOk(tab, <<EffNewDir(<<"d">>), EffCloseTab(tab.tab_idx)>>)
         ELSE IF fs = "file" THEN TabOk(tab, <<EffNewBuffer(<<"f">>)>>)
         ELSE TabOk(tab, <<>>)
    ELSE TabOk(tab, <<>>)

\* Shell::process_action
ShellHandler(tab, action) ==
    IF action.name \in {"Insert", "InsertUpper"} /\ FirstCharMissing(action)
    THEN TabPanicked(tab)
    ELSE TabOk(tab, <<>>)

\* the match on tabs[tab_idx]; indexing past the end panics
TabHandler(ts, idx, action, fs, io) ==
    IF idx >= Len(ts) THEN TabPanicked(<<>>)
    ELSE LET tab == ts[idx + 1]
         IN  CASE tab.kind = "Buffer" -> BufferHandler(tab, action, io)
               [] tab.kind = "Directory" -> DirectoryHandler(tab, action, fs)
               [] tab.kind = "Shell" -> ShellHandler(tab, action)

\* a variant of clear that keeps the text
clearKeepText(li) == [li EXCEPT !.action = None, !.cur = 0, !.scroll = 0]

\* LineInput::clear
clear(li) == [li EXCEPT !.text = <<>>, !.action = None, !.cur = 0, !.scroll = 0]

\* LineInput::cursor_forward
line_cursor_forward(li) ==
    LET moved == IF li.cur < Len(li.text) THEN [li EXCEPT !.cur = @ + 1] ELSE li
    IN  IF moved.cur > moved.scroll + moved.len
        THEN [moved EXCEPT !.scroll = @ + 1]
        ELSE moved

\* LineInput::insert_char for a character without case
line_insert_char(li, c) ==
    line_cursor_forward(
        [li EXCEPT !.text = SubSeq(li.text, 1, li.cur) \o <<c>>
                            \o SubSeq(li.text, li.cur + 1, Len(li.text))])

\* char::to_lowercase on the characters typed in the line input
line_lowercase(c) == IF c = "F" THEN "f" ELSE c

\* LineInput::cursor_backward
line_cursor_backward(li) ==
    LET moved == IF li.cur > 0 THEN [li EXCEPT !.cur = @ - 1] ELSE li
    IN  IF moved.cur < moved.scroll
        THEN [moved EXCEPT !.scroll = @ - 1]
        ELSE moved

\* LineInput::cursor_start, LineInput::cursor_end
line_cursor_start(li) == [li EXCEPT !.cur = 0]
line_cursor_end(li) == [li EXCEPT !.cur = Len(li.text)]

\* LineInput::delete
line_delete(li) ==
    IF Len(li.text) > 0 /\ li.cur > 0
    THEN line_cursor_backward(
             [li EXCEPT !.text = SubSeq(li.text, 1, li.cur - 1)
                                 \o SubSeq(li.text, li.cur + 1, Len(li.text))])
    ELSE li

\* LineInput::delete_back
line_delete_back(li) ==
    IF Len(li.text) > 0 /\ li.cur < Len(li.text)
    THEN [li EXCEPT !.text = SubSeq(li.text, 1, li.cur)
                             \o SubSeq(li.text, li.cur + 2, Len(li.text))]
    ELSE li

\* LineInput::process_action: the effects and the line input afterwards
LineHandler(li, action, idx) ==
    IF action.name = "LineExecute"
    THEN LET parsed == IF li.action.some
                       THEN parse_action(li.action.s, li.text, idx)
                       ELSE parse_action(li.text, li.text, idx)
         IN  [panic |-> FALSE,
              effects |-> IF parsed.ok THEN <<EffExcute(parsed.action)>>
                          ELSE <<EffErr("parse_action: invalid action")>>,
              line_input |-> clear(li)]
    ELSE IF action.name \in {"LineInsert", "LineInsertUpper"}
    THEN IF FirstCharMissing(action)
         THEN [panic |-> TRUE, effects |-> <<>>, line_input |-> li]
         ELSE [panic |-> FALSE, effects |-> <<>>,
               line_input |->
                   line_insert_char(li, IF action.name = "LineInsert"
                                        THEN line_lowercase(action.args[1].s[1])
                                        ELSE action.args[1].s[1])]
    ELSE [panic |-> FALSE, effects |-> <<>>,
          line_input |->
              CASE action.name = "LineInsertSpace" -> line_insert_char(li, " ")
                [] action.name = "LineCursorForward" -> line_cursor_forward(li)
                [] action.name = "LineCursorBackward" -> line_cursor_backward(li)
                [] action.name = "LineStart" -> line_cursor_start(li)
                [] action.name = "LineEnd" -> line_cursor_end(li)
                [] action.name = "LineDelete" -> line_delete(li)
                [] action.name = "LineDeleteBackward" -> line_delete_back(li)
                [] OTHER -> li]

(***************************************************************************)
(* The line input alone (src/src/lineinput.rs): LineInput::new with the    *)
(* width of the terminal, then its actions one after another.              *)
(***************************************************************************)
InitLine ==
    /\ build \in {"debug", "release"}
    /\ setting = [tab_size |-> 2, tab_type |-> "Space"]
    /\ size = [width |-> ViewWidth, height |-> ViewHeight]
    /\ buffer = NewBuffer
    /\ KeyIdle
    /\ ParseIdle
    /\ DiskIdle
    /\ tabs = <<>>
    /\ running = FALSE
    /\ state = "LineInsert"
    /\ line_input = [text |-> <<>>, action |-> None, notice |-> "",
                     cur |-> 0, scroll |-> 0, len |-> ViewWidth]
    /\ action_channel = <<>>
    /\ resolved_in = <<>>
    /\ alart_channel = <<>>
    /\ proc = <<>>
    /\ locks = <<>>
    /\ renderer = "idle"
    /\ event_handler = "idle"
    /\ reader = 0
    /\ editor_size = <<>>
    /\ resize_events = <<>>
    /\ created = 0

\* the line input after LineInput::process_action on the action
LineProcessed(a) == LineHandler(line_input, a, 0).line_input
LineFits(li) == Len(li.text) <= MaxLineLen
linevars == <<build, buffer, setting, size, keyvars, parsevars, termvars, disk, tabs,
              running, state, action_channel, resolved_in, alart_channel, proc, locks,
              renderer, event_handler, reader, created>>

LineInsert ==
    /\ LineFits(LineProcessed(Act("LineInsert", <<Some(<<"F">>)>>)))
    /\ line_input' = LineProcessed(Act("LineInsert", <<Some(<<"F">>)>>))
    /\ UNCHANGED linevars
LineInsertUpper ==
    /\ LineFits(LineProcessed(Act("LineInsertUpper", <<Some(<<"F">>)>>)))
    /\ line_input' = LineProcessed(Act("LineInsertUpper", <<Some(<<"F">>)>>))
    /\ UNCHANGED linevars
LineInsertSpace ==
    /\ LineFits(LineProcessed(Act("LineInsertSpace", <<>>)))
    /\ line_input' = LineProcessed(Act("LineInsertSpace", <<>>))
    /\ UNCHANGED linevars
LineCursorForward ==
    /\ LineFits(LineProcessed(Act("LineCursorForward", <<>>)))
    /\ line_input' = LineProcessed(Act("LineCursorForward", <<>>))
    /\ UNCHANGED linevars
LineCursorBackward ==
    /\ LineFits(LineProcessed(Act("LineCursorBackward", <<>>)))
    /\ line_input' = LineProcessed(Act("LineCursorBackward", <<>>))
    /\ UNCHANGED linevars
LineStart ==
    /\ LineFits(LineProcessed(Act("LineStart", <<>>)))
    /\ line_input' = LineProcessed(Act("LineStart", <<>>))
    /\ UNCHANGED linevars
LineEnd ==
    /\ LineFits(LineProcessed(Act("LineEnd", <<>>)))
    /\ line_input' = LineProcessed(Act("LineEnd", <<>>))
    /\ UNCHANGED linevars
LineDelete ==
    /\ LineFits(LineProcessed(Act("LineDelete", <<>>)))
    /\ line_input' = LineProcessed(Act("LineDelete", <<>>))
    /\ UNCHANGED linevars
LineDeleteBackward ==
    /\ LineFits(LineProcessed(Act("LineDeleteBackward", <<>>)))
    /\ line_input' = LineProcessed(Act("LineDeleteBackward", <<>>))
    /\ UNCHANGED linevars
LineExecute ==
    /\ LineFits(LineProcessed(Act("LineExecute", <<>>)))
    /\ line_input' = LineProcessed(Act("LineExecute", <<>>))
    /\ UNCHANGED linevars

NextLine ==
    \/ LineInsert \/ LineInsertUpper \/ LineInsertSpace
    \/ LineCursorForward \/ LineCursorBackward \/ LineStart \/ LineEnd
    \/ LineDelete \/ LineDeleteBackward \/ LineExecute

SpecLine == InitLine /\ [][NextLine]_vars

(***************************************************************************)
(* The tasks of run (src/src/lib.rs): the action-processing task           *)
(* process_action, the redraw loop and EventHandler::run.  Each await of   *)
(* a Mutex is a step of its own; a task that panics or returns drops the   *)
(* guards it holds.                                                        *)
(***************************************************************************)
bufvars == <<build, buffer, setting, size>>

Locks == {"line_input", "state", "running", "tabs"}
Held(l, who) == [locks EXCEPT ![l] = who]
ReleaseAll(who) == [l \in Locks |-> IF locks[l] = who THEN "free" ELSE locks[l]]

\* the action strings the keymaps of the model resolve key events to
ActionStrings ==
    {<<"Quit">>, <<"NextTab">>, <<"PrevTab">>, <<"Shell">>, <<"Save">>, <<"LineExecute">>,
     <<"InsertNewline">>, <<"Open">>, <<"?">>,
     <<"Open", "(", "$line", ")">>, <<"Open", "(", "f", ")">>,
     <<"LineInsert", "(", "f", ")">>,
     <<"CloseTab", "(", "$idx", ")">>, <<"CloseTab", "(", "1", ")">>}

FsKinds == {"file", "dir", "none"}

\* what the selected entry of a Directory tab can be
Selections == FsKinds \cup {"orphan"}

NoStaged == [some |-> FALSE, act |-> NoAction]
Staged(a) == [some |-> TRUE, act |-> a]

\* Buffer::new / Buffer::from_file / Directory::new / Shell::new as a tab
NewTab(kind, idx, id, path, sz) ==
    [kind |-> kind, tab_idx |-> idx, id |-> id, path |-> path, size |-> sz]

\* lib.rs 285-289: the terminal size run reads; the tabs have the rows
\* between the tab bar and the status bar
TerminalSize == [width |-> ViewWidth, height |-> ViewHeight + 2]

\* the size the terminal is resized to
Resized == [width |-> ViewWidth + 1, height |-> ViewHeight + 3]

\* lib.rs 194-195, 230-231, 269-270, 291-292: size.height -= 2 on a u16
buffer_size(sz) == [sz EXCEPT !.height = (@ + 65536 - 2) % 65536]

\* the tab run starts with (lib.rs 293-301): an empty buffer, a file or a
\* directory, the directory with the whole terminal size
FirstTabs ==
    {NewTab("Buffer", 0, 0, FALSE, buffer_size(TerminalSize)),
     NewTab("Buffer", 0, 0, TRUE, buffer_size(TerminalSize)),
     NewTab("Directory", 0, 0, FALSE, TerminalSize)}

\* the tasks that hold a clone of EditorInfo (lib.rs 317-318, 327)
Tasks == {"event_handler", "processor", "renderer"}

\* render.rs 137-149 (init): the screen is cleared; nothing is drawn before the first pass
Blank ==
    [idx |-> 0, tab |-> -1, alart |-> "", state |-> "", notice |-> "",
     text |-> <<>>, width |-> 0, status_row |-> 0]

\* lib.rs 280-328: the state run builds before the redraw loop
InitTasks ==
    /\ build \in {"debug", "release"}
    /\ setting = [tab_size |-> 2, tab_type |-> "Space"]
    /\ size = [width |-> ViewWidth, height |-> ViewHeight]
    /\ buffer = NewBuffer
    /\ KeyIdle
    /\ ParseIdle
    /\ DiskIdle
    /\ \E t \in FirstTabs : tabs = <<t>>
    /\ running = TRUE
    /\ state = "Normal"
    /\ line_input = [text |-> <<>>, action |-> None, notice |-> "",
                     cur |-> 0, scroll |-> 0, len |-> ViewWidth]
    /\ action_channel = <<>>
    /\ resolved_in = <<>>
    /\ alart_channel = <<>>
    /\ proc = [pc |-> "lock_line_input", action |-> NoAction,
               pre_selected_action |-> NoStaged, return_queue |-> <<>>,
               continued |-> FALSE, clear |-> FALSE, tab_idx |-> 0,
               origin |-> 0, staged_origin |-> 0]
    /\ locks = [l \in Locks |-> "free"]
    /\ renderer = [pc |-> "loop", screen |-> Blank]
    /\ event_handler = "next"
    /\ created = 1
    /\ editor_size = [t \in Tasks |-> TerminalSize]

\* the event stream delivers key events only
InitEditor ==
    /\ InitTasks
    /\ reader = MaxEvents
    /\ resize_events = <<>>

\* the task ends: by a panic or by return
ProcPanicked(p) == [p EXCEPT !.pc = "panicked", !.return_queue = <<>>]
ProcReturned(p) == [p EXCEPT !.pc = "returned", !.return_queue = <<>>]

\* lib.rs 140-146
P_LockLineInput ==
    /\ proc.pc = "lock_line_input"
    /\ locks["line_input"] = "free"
    /\ locks' = Held("line_input", "processor")
    /\ proc' = [proc EXCEPT !.pc = "select", !.continued = FALSE, !.clear = FALSE]
    /\ UNCHANGED <<bufvars, keyvars, parsevars, termvars, disk, tabs, running, state, line_input,
                   action_channel, resolved_in, alart_channel, renderer, event_handler,
                   reader, created>>

\* a variant of TakesStaged that prefers a queued action string to the
\* staged action
ChannelFirst(p) == p.pre_selected_action.some /\ action_channel = <<>>

\* if let Some(a) = pre_selected_action
TakesStaged(p) == p.pre_selected_action.some

\* a variant of Taken that leaves the staged action in place
TakenKeepStaged(p) ==
    [p EXCEPT !.pc = "lock_state",
              !.action = p.pre_selected_action.act,
              !.origin = p.staged_origin]

\* lib.rs 148-149: pre_selected_action = None; a
Taken(p) ==
    [p EXCEPT !.pc = "lock_state",
              !.action = p.pre_selected_action.act,
              !.pre_selected_action = NoStaged,
              !.origin = p.staged_origin]

\* lib.rs 147-149: the staged action is the next action
P_TakeStaged ==
    /\ proc.pc = "select"
    /\ TakesStaged(proc)
    /\ proc' = Taken(proc)
    /\ UNCHANGED <<bufvars, keyvars, parsevars, termvars, disk, tabs, running, state, line_input,
                   action_channel, resolved_in, alart_channel, locks, renderer,
                   event_handler, reader, created>>

\* lib.rs 151-152: an action string is received and parsed; the unwrap of a
\* parse error panics
P_Receive ==
    /\ proc.pc = "select"
    /\ ~TakesStaged(proc)
    /\ action_channel # <<>>
    /\ action_channel' = Tail(action_channel)
    /\ resolved_in' = Tail(resolved_in)
    /\ LET parsed == parse_action(Head(action_channel), line_input.text, proc.tab_idx)
       IN  IF parsed.ok
           THEN /\ proc' = [proc EXCEPT !.pc = "lock_state",
                                        !.action = parsed.action,
                                        !.origin = @ + 1]
                /\ locks' = locks
           ELSE /\ proc' = [ProcPanicked(proc) EXCEPT !.origin = @ + 1]
                /\ locks' = ReleaseAll("processor")
    /\ UNCHANGED <<bufvars, keyvars, parsevars, termvars, disk, tabs, running, state, line_input,
                   alart_channel, renderer, event_handler, reader, created>>

\* lib.rs 154
P_LockState ==
    /\ proc.pc = "lock_state"
    /\ locks["state"] = "free"
    /\ locks' = Held("state", "processor")
    /\ proc' = [proc EXCEPT !.pc = "lock_running"]
    /\ UNCHANGED <<bufvars, keyvars, parsevars, termvars, disk, tabs, running, state, line_input,
                   action_channel, resolved_in, alart_channel, renderer, event_handler,
                   reader, created>>

\* lib.rs 155
P_LockRunning ==
    /\ proc.pc = "lock_running"
    /\ locks["running"] = "free"
    /\ locks' = Held("running", "processor")
    /\ proc' = [proc EXCEPT !.pc = "lock_tabs"]
    /\ UNCHANGED <<bufvars, keyvars, parsevars, termvars, disk, tabs, running, state, line_input,
                   action_channel, resolved_in, alart_channel, renderer, event_handler,
                   reader, created>>

\* lib.rs 156
P_LockTabs ==
    /\ proc.pc = "lock_tabs"
    /\ locks["tabs"] = "free"
    /\ locks' = Held("tabs", "processor")
    /\ proc' = [proc EXCEPT !.pc = "handle"]
    /\ UNCHANGED <<bufvars, keyvars, parsevars, termvars, disk, tabs, running, state, line_input,
                   action_channel, resolved_in, alart_channel, renderer, event_handler,
                   reader, created>>

\* a variant of Queued that queues the effects last to first
QueuedReversed(g, t, l) ==
    LET q == g \o t \o l
    IN  [i \in 1..Len(q) |-> q[Len(q) + 1 - i]]

\* lib.rs 158-177: return_queue is extended by the three lists in turn
Queued(g, t, l) == g \o t \o l

\* lib.rs 157-177: the global handler, the handler of the focused tab and the
\* handler of the line input fill return_queue
P_Handle ==
    /\ proc.pc = "handle"
    /\ \E fs \in FsKinds, sel \in Selections, io \in BOOLEAN :
          LET g == action_map(proc.action, fs)
              t == TabHandler(tabs, proc.tab_idx, proc.action, sel, io)
              l == LineHandler(line_input, proc.action, proc.tab_idx)
          IN  IF g.panic \/ t.panic \/ l.panic
              THEN /\ proc' = ProcPanicked(proc)
                   /\ locks' = ReleaseAll("processor")
                   /\ UNCHANGED <<tabs, line_input>>
              ELSE /\ proc' = [proc EXCEPT !.pc = "apply",
                                           !.return_queue = Queued(g.effects, t.effects, l.effects)]
                   /\ tabs' = [tabs EXCEPT ![proc.tab_idx + 1] = t.tab]
                   /\ line_input' = l.line_input
                   /\ locks' = locks
    /\ UNCHANGED <<bufvars, keyvars, parsevars, termvars, disk, running, state, action_channel, resolved_in,
                   alart_channel, renderer, event_handler, reader, created>>

\* the effect the for loop of lib.rs 178 is at
Applying(types) ==
    /\ proc.pc = "apply"
    /\ proc.return_queue # <<>>
    /\ Head(proc.return_queue).type \in types
Popped(p) == [p EXCEPT !.return_queue = Tail(@)]

\* lib.rs 180-183
P_ApplyStop ==
    /\ Applying({"Stop"})
    /\ running' = FALSE
    /\ proc' = ProcReturned(proc)
    /\ locks' = ReleaseAll("processor")
    /\ UNCHANGED <<bufvars, keyvars, parsevars, termvars, disk, tabs, state, line_input, action_channel, resolved_in,
                   alart_channel, renderer, event_handler, reader, created>>

\* lib.rs 187-189
P_ApplyExcute ==
    /\ Applying({"Excute"})
    /\ proc' = [Popped(proc) EXCEPT
                   !.pre_selected_action = Staged(Head(proc.return_queue).act),
                   !.staged_origin = proc.origin]
    /\ UNCHANGED <<bufvars, keyvars, parsevars, termvars, disk, tabs, running, state, line_input,
                   action_channel, resolved_in, alart_channel, locks, renderer,
                   event_handler, reader, created>>

\* lib.rs 190-192
P_ApplyErr ==
    /\ Applying({"Err"})
    /\ alart_channel' = Append(alart_channel, Head(proc.return_queue).s)
    /\ proc' = Popped(proc)
    /\ UNCHANGED <<bufvars, keyvars, parsevars, termvars, disk, tabs, running, state, line_input,
                   action_channel, resolved_in, locks, renderer, event_handler, reader,
                   created>>

\* lib.rs 184-186, 215-223
P_ApplyState ==
    /\ Applying({"Continue", "State", "Notice", "ExcuteLine"})
    /\ LET r == Head(proc.return_queue)
       IN  /\ proc' = IF r.type = "Continue"
                      THEN [Popped(proc) EXCEPT !.continued = TRUE]
                      ELSE Popped(proc)
           /\ state' = IF r.type = "State" THEN r.s ELSE state
           /\ line_input' =
                 CASE r.type = "Notice" -> [line_input EXCEPT !.notice = r.s]
                   [] r.type = "ExcuteLine" -> [line_input EXCEPT !.action = Some(r.line)]
                   [] OTHER -> line_input
    /\ UNCHANGED <<bufvars, keyvars, parsevars, termvars, disk, tabs, running, action_channel, resolved_in,
                   alart_channel, locks, renderer, event_handler, reader,
                   created>>

\* a variant of ChangedTab that stops at the first and the last tab
ChangedTabClamped(idx, i, len) ==
    IF idx + i < 0 THEN 0 ELSE IF idx + i >= len THEN len - 1 ELSE idx + i

\* lib.rs 225-226: ((tab_idx as isize + i + len) % len) as usize
ChangedTab(idx, i, len) == (idx + i + len) % len

\* lib.rs 224-228
P_ApplyChangeTab ==
    /\ Applying({"ChangeTab"})
    /\ LET len == Len(tabs)
       IN  proc' = [Popped(proc) EXCEPT
                       !.tab_idx = ChangedTab(proc.tab_idx, Head(proc.return_queue).n, len),
                       !.clear = TRUE]
    /\ UNCHANGED <<bufvars, keyvars, parsevars, termvars, disk, tabs, running, state, line_input,
                   action_channel, resolved_in, alart_channel, locks, renderer,
                   event_handler, reader, created>>

\* what loading the tab can come to: Buffer::from_file returns its error;
\* Directory::new unwraps read_dir and returns the error of an entry;
\* Shell::new unwraps the spawn; Buffer::new has nothing to load
LoadOutcomes(r) ==
    CASE r.type = "NewBuffer" /\ r.line = <<>> -> {"ok"}
      [] r.type = "NewBuffer" -> {"ok", "err"}
      [] r.type = "NewDir" -> {"ok", "err", "panic"}
      [] r.type = "NewShell" -> {"ok", "panic"}

\* lib.rs 193-214, 229-241, 268-274: a tab is pushed and focused, or the
\* error of the load is sent, or the load panics
P_ApplyNewTab ==
    /\ Applying({"NewBuffer", "NewDir", "NewShell"})
    /\ LET r == Head(proc.return_queue)
           kind == CASE r.type = "NewBuffer" -> "Buffer"
                     [] r.type = "NewDir" -> "Directory"
                     [] r.type = "NewShell" -> "Shell"
       IN  \E loaded \in LoadOutcomes(r) :
              CASE loaded = "ok" ->
                      /\ tabs' = Append(tabs, NewTab(kind, Len(tabs), created,
                                                     r.type = "NewBuffer" /\ r.line # <<>>,
                                                     buffer_size(editor_size["processor"])))
                      /\ created' = created + 1
                      /\ proc' = [Popped(proc) EXCEPT !.tab_idx = Len(tabs)]
                      /\ UNCHANGED <<alart_channel, locks>>
                [] loaded = "err" ->
                      /\ alart_channel' = Append(alart_channel, "load")
                      /\ proc' = Popped(proc)
                      /\ UNCHANGED <<tabs, created, locks>>
                [] loaded = "panic" ->
                      /\ proc' = ProcPanicked(proc)
                      /\ locks' = ReleaseAll("processor")
                      /\ UNCHANGED <<tabs, created, alart_channel>>
    /\ UNCHANGED <<bufvars, keyvars, parsevars, termvars, disk, running, state, line_input,
                   action_channel, resolved_in, renderer, event_handler, reader>>

\* Vec::remove and the loop of lib.rs 250-262
Removed(ts, i) == SubSeq(ts, 1, i) \o SubSeq(ts, i + 2, Len(ts))
Reindexed(ts) == [k \in 1..Len(ts) |-> [ts[k] EXCEPT !.tab_idx = k - 1]]

\* lib.rs 242-267
P_ApplyCloseTab ==
    /\ Applying({"CloseTab"})
    /\ LET i == Head(proc.return_queue).n
           underflow == proc.tab_idx >= i /\ proc.tab_idx = 0
           idx == IF proc.tab_idx >= i
                  THEN (proc.tab_idx - 1) % UsizeMod
                  ELSE proc.tab_idx
       IN  IF i >= Len(tabs)
           THEN /\ proc' = ProcPanicked(proc)
                /\ locks' = ReleaseAll("processor")
                /\ UNCHANGED <<tabs, running>>
           ELSE IF underflow /\ build = "debug"
           THEN /\ tabs' = Removed(tabs, i)
                /\ proc' = ProcPanicked(proc)
                /\ locks' = ReleaseAll("processor")
                /\ UNCHANGED running
           ELSE /\ tabs' = Reindexed(Removed(tabs, i))
                /\ IF Len(tabs) = 1
                   THEN /\ running' = FALSE
                        /\ proc' = [ProcReturned(proc) EXCEPT
                                       !.tab_idx = idx,
                                       !.clear = (@ \/ idx = i)]
                        /\ locks' = ReleaseAll("processor")
                   ELSE /\ proc' = [Popped(proc) EXCEPT
                                       !.tab_idx = idx,
                                       !.clear = (@ \/ idx = i)]
                        /\ UNCHANGED <<running, locks>>
    /\ UNCHANGED <<bufvars, keyvars, parsevars, termvars, disk, state, line_input, action_channel, resolved_in,
                   alart_channel, renderer, event_handler, reader, created>>

\* lib.rs 277: the guards of the iteration are dropped
P_EndIteration ==
    /\ proc.pc = "apply"
    /\ proc.return_queue = <<>>
    /\ proc' = [proc EXCEPT !.pc = "lock_line_input"]
    /\ locks' = ReleaseAll("processor")
    /\ UNCHANGED <<bufvars, keyvars, parsevars, termvars, disk, tabs, running, state, line_input,
                   action_channel, resolved_in, alart_channel, renderer, event_handler,
                   reader, created>>

\* lib.rs 330-334: the redraw loop checks the flag under its lock
R_LockRunning ==
    /\ renderer.pc = "loop"
    /\ locks["running"] = "free"
    /\ IF running
       THEN /\ locks' = Held("running", "renderer")
            /\ renderer' = [renderer EXCEPT !.pc = "lock_state"]
       ELSE /\ renderer' = [renderer EXCEPT !.pc = "exited"]
            /\ UNCHANGED locks
    /\ UNCHANGED <<bufvars, keyvars, parsevars, termvars, disk, tabs, running, state, line_input,
                   action_channel, resolved_in, alart_channel, proc, event_handler,
                   reader, created>>

\* render.rs 36
R_LockState ==
    /\ renderer.pc = "lock_state"
    /\ locks["state"] = "free"
    /\ locks' = Held("state", "renderer")
    /\ renderer' = [renderer EXCEPT !.pc = "lock_line_input"]
    /\ UNCHANGED <<bufvars, keyvars, parsevars, termvars, disk, tabs, running, state, line_input,
                   action_channel, resolved_in, alart_channel, proc, event_handler,
                   reader, created>>

\* render.rs 37
R_LockLineInput ==
    /\ renderer.pc = "lock_line_input"
    /\ locks["line_input"] = "free"
    /\ locks' = Held("line_input", "renderer")
    /\ renderer' = [renderer EXCEPT !.pc = "lock_tabs"]
    /\ UNCHANGED <<bufvars, keyvars, parsevars, termvars, disk, tabs, running, state, line_input,
                   action_channel, resolved_in, alart_channel, proc, event_handler,
                   reader, created>>

\* render.rs 38
R_LockTabs ==
    /\ renderer.pc = "lock_tabs"
    /\ locks["tabs"] = "free"
    /\ locks' = Held("tabs", "renderer")
    /\ renderer' = [renderer EXCEPT !.pc = "render"]
    /\ UNCHANGED <<bufvars, keyvars, parsevars, termvars, disk, tabs, running, state, line_input,
                   action_channel, resolved_in, alart_channel, proc, event_handler,
                   reader, created>>

\* lib.rs 335: the index the redraw loop passes to render
RenderIdx == 0

\* render.rs 39-103: what a pass puts on the screen: the tab at idx, the tab
\* bar with the tab at idx reversed, and on the status bar the alert taken
\* by try_recv or else the state label and the notice and text of the line
\* input
Rendered(idx) ==
    [idx |-> idx,
     tab |-> tabs[idx + 1].id,
     alart |-> IF alart_channel # <<>> THEN Head(alart_channel) ELSE "",
     state |-> IF alart_channel # <<>> THEN "" ELSE state,
     notice |-> IF alart_channel # <<>> THEN "" ELSE line_input.notice,
     text |-> IF alart_channel # <<>> THEN <<>> ELSE line_input.text,
     width |-> editor_size["renderer"].width,
     status_row |-> editor_size["renderer"].height - 1]

\* render.rs 33-135 called with RenderIdx: indexing past the tabs panics; a
\* pending alert is taken by the pass; the guards are dropped
R_Render ==
    /\ renderer.pc = "render"
    /\ IF RenderIdx >= Len(tabs)
       THEN /\ renderer' = [renderer EXCEPT !.pc = "panicked"]
            /\ UNCHANGED alart_channel
       ELSE /\ renderer' = [pc |-> "loop", screen |-> Rendered(RenderIdx)]
            /\ alart_channel' = IF alart_channel = <<>> THEN <<>> ELSE Tail(alart_channel)
    /\ locks' = ReleaseAll("renderer")
    /\ UNCHANGED <<bufvars, keyvars, parsevars, termvars, disk, tabs, running, state, line_input,
                   action_channel, resolved_in, proc, event_handler, reader, created>>

\* lib.rs 65-71: an event arrives; the task returns when the flag is cleared
E_Next ==
    /\ event_handler = "next"
    /\ reader > 0
    /\ locks["running"] = "free"
    /\ reader' = reader - 1
    /\ event_handler' = IF running THEN "lock_state" ELSE "returned"
    /\ UNCHANGED <<bufvars, keyvars, parsevars, termvars, disk, tabs, running, state, line_input,
                   action_channel, resolved_in, alart_channel, proc, locks, renderer,
                   created>>

\* lib.rs 72: the state is locked for a key event and for a resize event
E_LockState ==
    /\ event_handler \in {"lock_state", "resize_lock_state"}
    /\ locks["state"] = "free"
    /\ locks' = Held("state", "event_handler")
    /\ event_handler' = IF event_handler = "lock_state" THEN "send" ELSE "resize"
    /\ UNCHANGED <<bufvars, keyvars, parsevars, termvars, disk, tabs, running, state, line_input,
                   action_channel, resolved_in, alart_channel, proc, renderer, reader,
                   created>>

\* lib.rs 151, 180, 279: the receiver of the action channel lives in
\* process_action and is dropped when the task ends
ReceiverDropped == proc.pc \in {"returned", "panicked"}

\* lib.rs 73-96, 322-324: the key is resolved in the keymap of the state and the
\* action string, if the key has one, is sent; sending to a channel whose
\* receiver is dropped returns the error from run, and the unwrap of the
\* spawned task panics; the guard of state is dropped
E_Send ==
    /\ event_handler = "send"
    /\ \E a \in ActionStrings \cup {<<>>} :
          CASE a = <<>> ->
                  /\ event_handler' = "next"
                  /\ UNCHANGED <<action_channel, resolved_in>>
            [] a # <<>> /\ ReceiverDropped ->
                  /\ event_handler' = "panicked"
                  /\ UNCHANGED <<action_channel, resolved_in>>
            [] a # <<>> /\ ~ReceiverDropped ->
                  /\ event_handler' = "next"
                  /\ action_channel' = Append(action_channel, a)
                  /\ resolved_in' = Append(resolved_in, state)
    /\ locks' = ReleaseAll("event_handler")
    /\ UNCHANGED <<bufvars, keyvars, parsevars, termvars, disk, tabs, running, state, line_input,
                   alart_channel, proc, renderer, reader, created>>

NextEditor ==
    \/ P_LockLineInput \/ P_TakeStaged \/ P_Receive
    \/ P_LockState \/ P_LockRunning \/ P_LockTabs \/ P_Handle
    \/ P_ApplyStop \/ P_ApplyExcute \/ P_ApplyErr \/ P_ApplyState
    \/ P_ApplyChangeTab \/ P_ApplyNewTab \/ P_ApplyCloseTab \/ P_EndIteration
    \/ R_LockRunning \/ R_LockState \/ R_LockLineInput \/ R_LockTabs \/ R_Render
    \/ E_Next \/ E_LockState \/ E_Send

SpecEditor == InitEditor /\ [][NextEditor]_vars

(***************************************************************************)
(* The tasks of run under the scheduling of the tokio runtime: a task that *)
(* can take a step infinitely often takes it (a spawned task that is ready *)
(* is polled, and tokio's Mutex hands the lock to its waiters in order).   *)
(***************************************************************************)
ProcessorStep ==
    \/ P_LockLineInput \/ P_TakeStaged \/ P_Receive
    \/ P_LockState \/ P_LockRunning \/ P_LockTabs \/ P_Handle
    \/ P_ApplyStop \/ P_ApplyExcute \/ P_ApplyErr \/ P_ApplyState
    \/ P_ApplyChangeTab \/ P_ApplyNewTab \/ P_ApplyCloseTab \/ P_EndIteration
RendererStep ==
    R_LockRunning \/ R_LockState \/ R_LockLineInput \/ R_LockTabs \/ R_Render
InputStep == E_Next \/ E_LockState \/ E_Send

InitChain ==
    /\ InitTasks
    /\ reader = MaxChainKeys
    /\ resize_events = <<>>

SpecChain ==
    /\ InitChain
    /\ [][NextEditor]_vars
    /\ SF_vars(ProcessorStep)
    /\ SF_vars(RendererStep)
    /\ SF_vars(InputStep)

(***************************************************************************)
(* The tasks of run when the terminal is resized.                          *)
(***************************************************************************)
\* lib.rs 65-71: the event that arrives is a resize event
E_NextResize ==
    /\ event_handler = "next"
    /\ resize_events # <<>>
    /\ locks["running"] = "free"
    /\ event_handler' = IF running THEN "resize_lock_state" ELSE "returned"
    /\ resize_events' = IF running THEN resize_events ELSE Tail(resize_events)
    /\ UNCHANGED <<bufvars, keyvars, parsevars, disk, editor_size, tabs, running,
                   state, line_input, action_channel, resolved_in, alart_channel, proc, locks,
                   renderer, reader, created>>

\* lib.rs 91: format!("Resize({},{})", size.0, size.1)
ResizeString(sz) ==
    <<"Resize", "(", IdxToString(sz.width), ",", IdxToString(sz.height), ")">>

\* lib.rs 84-93, 322-324: self.editor.size becomes the size of the terminal and
\* the Resize action string is sent; the guard of state is dropped
E_Resize ==
    /\ event_handler = "resize"
    /\ editor_size' = [editor_size EXCEPT !["event_handler"] = Head(resize_events)]
    /\ resize_events' = Tail(resize_events)
    /\ IF ReceiverDropped
       THEN /\ event_handler' = "panicked"
            /\ UNCHANGED <<action_channel, resolved_in>>
       ELSE /\ event_handler' = "next"
            /\ action_channel' = Append(action_channel, ResizeString(Head(resize_events)))
            /\ resolved_in' = Append(resolved_in, state)
    /\ locks' = ReleaseAll("event_handler")
    /\ UNCHANGED <<bufvars, keyvars, parsevars, disk, tabs, running, state,
                   line_input, alart_channel, proc, renderer, reader, created>>

\* the event stream delivers key events and one resize event
InitResize ==
    /\ InitTasks
    /\ reader = MaxResizeKeys
    /\ resize_events = <<Resized>>

NextResize == NextEditor \/ E_NextResize \/ E_Resize

SpecResize == InitResize /\ [][NextResize]_vars

(***************************************************************************)
(* Properties of the action-processing task.                               *)
(***************************************************************************)
\* C3: the effects of two action strings never interleave: an action staged
\* through Excute belongs to the action string whose effects are being
\* applied, so no action string received later is dispatched before the
\* staged action, and the effects of a chain are applied by the one task.
C3_AtMostOneInFlight ==
    /\ proc.pre_selected_action.some => proc.staged_origin = proc.origin
    /\ proc.return_queue # <<>> => proc.pc = "apply"
    /\ proc.pc \in {"lock_running", "lock_tabs", "handle", "apply"} => locks["state"] = "processor"
    /\ proc.pc \in {"handle", "apply"} =>
          \A l \in Locks : locks[l] = "processor"

C3_Witness ==
    /\ proc.pc = "apply"
    /\ proc.pre_selected_action.some
    /\ proc.origin = 1
    /\ action_channel # <<>>

\* C6: CloseTab(i) on n >= 2 tabs with 0 <= i < n removes exactly tab i,
\* leaves every tab's stored index equal to its position and leaves the
\* focus index in 0..n-2.
C6_CloseTabReindex ==
    [][(/\ P_ApplyCloseTab
        /\ Len(tabs) >= 2
        /\ Head(proc.return_queue).n < Len(tabs))
       => /\ [k \in 1..Len(tabs') |-> tabs'[k].id]
               = [k \in 1..Len(tabs) - 1 |-> Removed(tabs, Head(proc.return_queue).n)[k].id]
          /\ \A k \in 1..Len(tabs') : tabs'[k].tab_idx = k - 1
          /\ proc'.tab_idx \in 0..Len(tabs) - 2]_vars

\* C7: applying Stop, or a CloseTab that removes the only tab, clears the
\* running flag and ends the action-processing task by return.
C7_SessionTermination ==
    [][(\/ P_ApplyStop
        \/ (P_ApplyCloseTab /\ Len(tabs) = 1 /\ Head(proc.return_queue).n = 0))
       => (~running' /\ proc'.pc = "returned")]_vars

\* C8: receiving and dispatching an action string never ends the
\* action-processing task, whatever the string.
C8_DispatchNeverStops ==
    [][(P_Receive \/ P_Handle) => proc'.pc # "panicked"]_vars

(***************************************************************************)
(* parse_action on its own (src/src/lib.rs): calls with an action string   *)
(* built from a name and a list of arguments, or a malformed one.          *)
(***************************************************************************)
MaxArgs == 2         \* most arguments of an action string

\* an argument as written in an action string
ArgPieces == {<<"$line">>, <<"$idx">>, <<"a">>, <<>>, <<"a", "$line">>}

\* the arguments separated by commas
RECURSIVE Join(_)
Join(args) ==
    IF Len(args) = 1 THEN args[1]
    ELSE args[1] \o <<",">> \o Join(Tail(args))

\* the action string Name or Name(arg1,...,argk)
Call(name, args) ==
    IF args = <<>> THEN <<name>>
    ELSE <<name, "(">> \o Join(args) \o <<")">>

ArgLists == UNION {[1..k -> ArgPieces] : k \in 0..MaxArgs}
Malformed == {<<>>, <<"?">>, <<"Open", "(", ")">>, <<"Open", "(", "a">>}
LineTexts == {<<>>, <<"foo.txt">>}
TabIndexes == {0, 2}

NotCalled == [called |-> FALSE, ok |-> FALSE, action |-> NoAction]

InitParse ==
    /\ BufferIdle
    /\ DiskIdle
    /\ KeyIdle
    /\ EditorIdle
    /\ \E line \in LineTexts, idx \in TabIndexes :
          \/ \E args \in ArgLists :
                parse_input = [name |-> "Open", args |-> args,
                               action |-> Call("Open", args),
                               line |-> line, idx |-> idx]
          \/ \E str \in Malformed :
                parse_input = [name |-> "", args |-> <<>>, action |-> str,
                               line |-> line, idx |-> idx]
    /\ parse_output = NotCalled

\* a call of parse_action (lib.rs 152, lineinput.rs 141 and 149)
ParseAction ==
    /\ ~parse_output.called
    /\ LET r == parse_action(parse_input.action, parse_input.line, parse_input.idx)
       IN  parse_output' = [called |-> TRUE, ok |-> r.ok, action |-> r.action]
    /\ UNCHANGED <<bufvars, keyvars, edvars, parse_input, disk, termvars>>

NextParse == ParseAction

SpecParse == InitParse /\ [][NextParse]_vars

C13_DispatchOrder ==
    [][/\ proc.pc \in {"lock_state", "lock_running", "lock_tabs"}
          => (proc'.tab_idx = proc.tab_idx /\ tabs' = tabs)
       /\ (P_Handle /\ proc'.pc = "apply")
          => \E fs \in FsKinds, sel \in Selections, io \in BOOLEAN :
                proc'.return_queue =
                    action_map(proc.action, fs).effects
                    \o TabHandler(tabs, proc.tab_idx, proc.action, sel, io).effects
                    \o LineHandler(line_input, proc.action, proc.tab_idx).effects
       /\ (proc.pc = "apply" /\ proc'.pc = "apply" /\ proc' # proc)
          => proc'.return_queue = Tail(proc.return_queue)]_vars

C13_Witness ==
    /\ proc.pc = "apply"
    /\ Len(proc.return_queue) = 2
    /\ proc.action.name = "Open"
    /\ proc.return_queue[1].type = "NewBuffer"
    /\ Len(tabs) = 2
    /\ proc.tab_idx = 1

\* C14: an action staged by Excute is the action of the very next iteration,
\* ahead of every action string waiting in the channel, and is taken once;
\* the other actions are received in the order they were sent.
C14_DeferredExecutionOrder ==
    [][/\ (proc.pc = "select" /\ proc.pre_selected_action.some /\ proc' # proc)
          => /\ proc'.action = proc.pre_selected_action.act
             /\ ~proc'.pre_selected_action.some
             /\ action_channel' = action_channel
       /\ (proc.pc = "select" /\ ~proc.pre_selected_action.some /\ proc' # proc)
          => /\ action_channel # <<>>
             /\ action_channel' = Tail(action_channel)
             /\ LET parsed == parse_action(Head(action_channel), line_input.text, proc.tab_idx)
                IN  parsed.ok => proc'.action = parsed.action
       /\ (action_channel' # action_channel /\ proc' = proc)
          => \E a \in ActionStrings : action_channel' = Append(action_channel, a)
       /\ (proc'.pre_selected_action.some /\ ~proc.pre_selected_action.some)
          => /\ Applying({"Excute"})
             /\ proc'.pre_selected_action.act = Head(proc.return_queue).act]_vars

C14_Witness ==
    /\ proc.pc = "lock_state"
    /\ proc.action = Act("SaveAs", <<>>)
    /\ ~proc.pre_selected_action.some
    /\ Len(action_channel) = 2

\* C15: ExcuteLine(template) arms the line input; the next LineExecute
\* parses the template with the text of the line input for $line, stages
\* the parsed action through Excute, empties the text with cursor and
\* scroll back at 0 and disarms the template.
C15_LineInputArming ==
    [][/\ (P_ApplyState /\ Head(proc.return_queue).type = "ExcuteLine")
          => line_input'.action = Some(Head(proc.return_queue).line)
       /\ (/\ P_Handle
           /\ proc'.pc = "apply"
           /\ proc.action.name = "LineExecute"
           /\ line_input.action.some)
          => /\ line_input'.text = <<>>
             /\ line_input'.cur = 0
             /\ line_input'.scroll = 0
             /\ ~line_input'.action.some
             /\ line_input.action.s = <<"Open", "(", "$line", ")">>
                => proc'.return_queue =
                      <<EffExcute(Act("Open", <<IF line_input.text = <<>>
                                                THEN None
                                                ELSE Some(line_input.text)>>))>>]_vars

C15_Witness ==
    /\ proc.pc = "apply"
    /\ proc.action.name = "LineExecute"
    /\ proc.return_queue = <<EffExcute(Act("Open", <<Some(<<"f">>)>>))>>
    /\ line_input.text = <<>>
    /\ ~line_input.action.some

\* C16: ChangeTab(+1) moves the focus to the next tab and from the last tab
\* to tab 0, ChangeTab(-1) to the previous tab and from tab 0 to the last
\* tab; the tabs and their stored indexes stay as they are.
C16_TabNavigation ==
    [][P_ApplyChangeTab
       => LET n == Len(tabs)
              idx == proc.tab_idx
              delta == Head(proc.return_queue).n
          IN  /\ delta \in {1, -1}
              /\ delta = 1 => proc'.tab_idx = (IF idx = n - 1 THEN 0 ELSE idx + 1)
              /\ delta = -1 => proc'.tab_idx = (IF idx = 0 THEN n - 1 ELSE idx - 1)
              /\ tabs' = tabs]_vars

C16_Witness ==
    /\ proc.pc = "apply"
    /\ proc.action.name = "PrevTab"
    /\ proc.return_queue = <<>>
    /\ proc.clear
    /\ Len(tabs) = 2
    /\ proc.tab_idx = 1

\* C17: NewBuffer, NewDir and NewShell append one tab whose stored index is
\* its position and focus it; a NewBuffer or NewDir whose file or directory
\* cannot be opened adds no tab, keeps the focus and sends one error on the
\* alert channel.
C17_TabCreation ==
    [][P_ApplyNewTab
       => \/ /\ Len(tabs') = Len(tabs) + 1
             /\ SubSeq(tabs', 1, Len(tabs)) = tabs
             /\ tabs'[Len(tabs')].tab_idx = Len(tabs)
             /\ proc'.tab_idx = Len(tabs)
             /\ alart_channel' = alart_channel
          \/ /\ Head(proc.return_queue).type \in {"NewBuffer", "NewDir"}
             /\ tabs' = tabs
             /\ proc'.tab_idx = proc.tab_idx
             /\ proc'.pc = "apply"
             /\ Len(alart_channel') = Len(alart_channel) + 1
             /\ SubSeq(alart_channel', 1, Len(alart_channel)) = alart_channel]_vars

\* C18: in every render pass the tab drawn, and shown as active in the tab
\* bar, is the tab at the focus index of the action-processing task, the one
\* last set by NewBuffer, NewDir, NewShell, ChangeTab or CloseTab.
C18_RendersFocusedTab ==
    [][(R_Render /\ renderer'.pc = "loop")
       => /\ renderer'.screen.idx = proc.tab_idx
          /\ proc.tab_idx < Len(tabs)
          /\ renderer'.screen.tab = tabs[proc.tab_idx + 1].id]_vars

\* C19: every error sent on the alert channel is shown in exactly one render
\* pass in place of the normal status line, in the order sent; a pass shows
\* the state label with the notice and text of the line input exactly when
\* no alert is pending. An error still in the channel when the redraw loop
\* has ended is shown in no pass.
C19_AlertDisplay ==
    /\ [][(R_Render /\ renderer'.pc = "loop")
          => IF alart_channel # <<>>
             THEN /\ renderer'.screen.alart = Head(alart_channel)
                  /\ alart_channel' = Tail(alart_channel)
                  /\ renderer'.screen.state = ""
             ELSE /\ renderer'.screen.alart = ""
                  /\ renderer'.screen.state = state
                  /\ renderer'.screen.notice = line_input.notice
                  /\ renderer'.screen.text = line_input.text
                  /\ alart_channel' = <<>>]_vars
    /\ [][~R_Render => \E k \in 0..1 :
             /\ Len(alart_channel') = Len(alart_channel) + k
             /\ SubSeq(alart_channel', 1, Len(alart_channel)) = alart_channel]_vars
    /\ [](renderer.pc \in {"exited", "panicked"} => alart_channel = <<>>)

\* C20: once the running flag is cleared the input task sends no further
\* action string on the action channel, and on its next terminal event it
\* reads the cleared flag and returns without error, in every interleaving
\* with the action-processing task.
C20_InputTaskShutdown ==
    /\ [][~running => Len(action_channel') <= Len(action_channel)]_vars
    /\ [][(E_Next /\ ~running) => event_handler' = "returned"]_vars
    /\ [](~running => event_handler # "panicked")

(***************************************************************************)
(* Properties of the Buffer tab and its file.                              *)
(***************************************************************************)
\* the document without its continuation sentinels
NotSentinel(c) == c \notin {HANGUL_PAD, TAB_PAD}
Strip(t) == SelectSeq(t, NotSentinel)

\* C21: save writes the document with every wide-continuation and
\* tab-continuation sentinel removed and every other character kept in
\* order: what is written is the document's characters without sentinels.
C21_SaveStripsSentinels ==
    [][((Save \/ SaveAs) /\ disk'.saves = disk.saves + 1)
       => disk'.s = bytes(Strip(buffer.text))]_vars

\* the buffer holds the document loaded from its file, not edited since
Unedited == disk.some /\ disk.saves = 0 /\ buffer.path /\ buffer.saved

\* C22: the document loaded from a file holds the file's characters once and
\* in order, with sentinels only directly after a tab and one directly after
\* each wide glyph; without its sentinels it is the file, and saving it
\* unedited writes the file back as it was.
C22_LoadRoundTrip ==
    /\ [](Unedited =>
            /\ bytes(Strip(buffer.text)) = disk.s
            /\ PaddingOK(buffer.text)
            /\ \A k \in 1..Len(buffer.text) :
                  is_hangul(buffer.text[k]) =>
                     /\ k < Len(buffer.text)
                     /\ buffer.text[k + 1] = HANGUL_PAD
                     /\ k + 2 <= Len(buffer.text) => buffer.text[k + 2] # HANGUL_PAD)
    /\ [][(Save /\ Unedited /\ disk'.saves = 1) => disk'.s = disk.s]_vars

(***************************************************************************)
(* Properties of saving and opening through the line input.                *)
(***************************************************************************)
\* the iteration that ends handled Save or SaveAs on a Buffer tab
SaveHandled ==
    /\ P_EndIteration
    /\ proc.action.name \in {"Save", "SaveAs"}
    /\ proc.tab_idx < Len(tabs)
    /\ tabs[proc.tab_idx + 1].kind = "Buffer"

\* it had no file name to save to
SavePrompted ==
    \/ proc.action.name = "Save" /\ ~tabs[proc.tab_idx + 1].path
    \/ proc.action.name = "SaveAs" /\ proc.action.args = <<>>

\* C23: Save and SaveAs on a Buffer tab without a file name leave the state
\* LineInsert and the notice of the file name prompt, and the SaveAs they
\* stage runs with the file name committed in the line input; with a file
\* name they call save and leave the state Normal.
C23_SavePrompt ==
    /\ [][SaveHandled =>
            IF SavePrompted
            THEN state = "LineInsert" /\ line_input.notice = "Enter file name: "
            ELSE state = "Normal"]_vars
    /\ [][(P_TakeStaged /\ proc.pre_selected_action.act.name = "SaveAs")
          => /\ Len(proc'.action.args) = 1
             /\ proc'.action.args[1].some]_vars

\* the template open arms the line input with
OpenTemplate == <<"Open", "(", "$line", ")">>

\* C24: Open without a path - the action string Open, and Open($line) with
\* an empty line input - returns the prompt sequence: state LineInsert, the
\* notice of the file name prompt and the template Open($line) for the line
\* input; the next LineExecute with the text p stages Open(p).
C24_OpenPrompt ==
    /\ [][(/\ P_Handle
           /\ proc.action.name = "Open"
           /\ proc.action.args \in {<<>>, <<None>>})
          => /\ proc'.pc = "apply"
             /\ proc'.return_queue
                   = <<EffState("LineInsert"), EffNotice("Enter file name: "),
                       EffExcuteLine(OpenTemplate)>>]_vars
    /\ [][(/\ P_Handle
           /\ proc.action.name = "LineExecute"
           /\ line_input.action = Some(OpenTemplate)
           /\ line_input.text # <<>>)
          => /\ proc'.return_queue
                   = <<EffExcute(Act("Open", <<Some(line_input.text)>>))>>
             /\ ~line_input'.action.some]_vars

(***************************************************************************)
(* Properties of the keymap as loaded.                                     *)
(***************************************************************************)
\* C25: a keymap in which two action templates claim the same literal chord,
\* or in which a chord with the wildcard is bound to a template without the
\* $char placeholder, fails to load: no such keymap resolves a chord, and
\* the resolver never comes to its unreachable branch.
C25_KeymapLoadErrors ==
    [][ReadKey
       => /\ \A b \in Bindings :
                /\ CharAny \in b[2] => HasPlaceholder(b[1])
                /\ CharAny \notin b[2] =>
                      \A b2 \in Bindings : b2[2] = b[2] => b2[1] = b[1]
          /\ resolved' # PanicStr]_vars

(***************************************************************************)
(* Properties of the terminal size.                                        *)
(***************************************************************************)
\* C26: after the input task handles a resize event the size the
\* action-processing task makes new tabs with and the size the redraw loop
\* places the tab bar and the status bar with are the new terminal size, and
\* a Resize action with the new size is sent on the action channel.
C26_ResizePropagation ==
    /\ [][(E_Resize /\ event_handler' = "next")
          => /\ \A t \in Tasks : editor_size'[t] = Head(resize_events)
             /\ action_channel'
                   = Append(action_channel, ResizeString(Head(resize_events)))]_vars
    /\ [][(R_Render /\ renderer'.pc = "loop")
          => /\ renderer'.screen.width = editor_size["event_handler"].width
             /\ renderer'.screen.status_row = editor_size["event_handler"].height - 1]_vars
    /\ [][(P_ApplyNewTab /\ Len(tabs') > Len(tabs))
          => tabs'[Len(tabs')].size = buffer_size(editor_size["event_handler"])]_vars

(***************************************************************************)
(* Properties of the Directory tab.                                        *)
(***************************************************************************)
Focused(ts, p) == ts[p.tab_idx + 1]
EnterOnDirectoryTab ==
    /\ proc.action.name = "InsertNewline"
    /\ proc.tab_idx < Len(tabs)
    /\ Focused(tabs, proc).kind = "Directory"
EnterQueue(i) == <<EffNewDir(<<"d">>), EffCloseTab(i)>>

\* C27: Enter on the parent entry or on a directory entry of the Directory
\* tab at index i queues NewDir(path) and then CloseTab(i), and Enter on a
\* file entry queues NewBuffer(path) alone; once NewDir and CloseTab are
\* applied the number of tabs is what it was, the old Directory tab is gone
\* and the focused tab is the Directory tab just made.
C27_EnterDirectory ==
    /\ [][(P_Handle /\ EnterOnDirectoryTab /\ state = "Normal")
          => /\ proc'.pc = "apply"
             /\ proc'.return_queue \in {EnterQueue(proc.tab_idx),
                                        <<EffNewBuffer(<<"f">>)>>, <<>>}]_vars
    /\ [][(P_ApplyNewTab /\ proc.action.name = "InsertNewline"
                         /\ Head(proc.return_queue).type = "NewDir")
          => /\ proc'.pc = "apply"
             /\ Len(tabs') = Len(tabs) + 1
             /\ proc'.return_queue = <<EffCloseTab(proc.tab_idx)>>]_vars
    /\ [][(P_ApplyCloseTab /\ proc.action.name = "InsertNewline")
          => /\ proc'.pc = "apply"
             /\ Len(tabs') = Len(tabs) - 1
             /\ proc'.tab_idx = Len(tabs') - 1
             /\ Focused(tabs', proc').kind = "Directory"
             /\ Focused(tabs', proc').id = created - 1
             /\ \A k \in 1..Len(tabs') :
                   /\ tabs'[k].id # tabs[Head(proc.return_queue).n + 1].id
                   /\ tabs'[k].tab_idx = k - 1]_vars

(***************************************************************************)
(* Properties of the cursor motions of the Buffer tab.                     *)
(***************************************************************************)
\* the document satisfies the padding invariant and the cursor is on a unit
\* boundary
Atomic(b) == ~b.panicked /\ PaddingOK(b.text) /\ OnUnitBoundary(b)

\* C28: from a document that satisfies the padding invariant with the cursor
\* on a unit boundary, after any cursor-motion action the character at the
\* cursor is no wide-continuation and no tab-continuation sentinel.
C28_SentinelAtomicity ==
    [][(MotionStep /\ Atomic(buffer) /\ ~buffer'.panicked)
       => OnUnitBoundary(buffer')]_vars

\* the index at which row r of the document starts, and the number of
\* characters of row r before its newline
RowStart(t, r) ==
    IF r = 0 THEN 0
    ELSE CHOOSE k \in 1..Len(t) :
            t[k] = NL /\ Cardinality({j \in 1..k : t[j] = NL}) = r
RowContent(t, r) ==
    LET S == {k \in (RowStart(t, r) + 1)..Len(t) : t[k] = NL}
    IN  (IF S = {} THEN Len(t) ELSE SetMin(S) - 1) - RowStart(t, r)
Dist(a, b) == IF a < b THEN b - a ELSE a - b

\* the cursor of b2 is on row r at the column of b clamped to the content of
\* row r, and the camera row of b2 is at most one from that of b
MovedToRow(b, b2, r) ==
    /\ ~b2.panicked
    /\ b2.text = b.text
    /\ get_row(b2) = r
    /\ get_col(b2) = Min(get_col(b), RowContent(b.text, r))
    /\ Dist(b.camera.row, b2.camera.row) <= 1

\* C29: CursorUp from row r, column c, r not the first row, puts the cursor
\* on row r-1, and CursorDown, r not the last row, on row r+1, at column
\* min(c, content length of that row without its newline); camera.row
\* changes by at most one.
C29_VerticalMotion ==
    [][/\ (CursorUp /\ get_row(buffer) > 0)
          => MovedToRow(buffer, buffer', get_row(buffer) - 1)
       /\ (CursorDown /\ get_row(buffer) < LastRow(buffer))
          => MovedToRow(buffer, buffer', get_row(buffer) + 1)]_vars

\* a unit is a character with the continuation sentinels that follow it;
\* UnitEnd is the index after the unit that starts at index k and UnitStart
\* the index of the leading character of the unit that ends at index c
Sentinels == {HANGUL_PAD, TAB_PAD}
UnitEnd(t, k) ==
    SetMin({j \in (k + 1)..Len(t) : j = Len(t) \/ t[j + 1] \notin Sentinels})
UnitStart(t, c) ==
    SetMax({k \in 0..(c - 1) : t[k + 1] \notin Sentinels})
\* a wide glyph, a tab character or an ordinary character that is no space
Leads(c) == is_hangul(c) \/ c = TAB \/ ~is_whitespace(c)

\* C30: CursorForward from immediately before a wide glyph or a tab
\* character puts the cursor immediately after the last continuation
\* sentinel of that character, for every run of 0 to tab_size-1 sentinels;
\* CursorBackward from immediately after such a unit puts the cursor
\* immediately before its leading character; over an ordinary character
\* that is no space each moves one index.
C30_LogicalHorizontalMotion ==
    [][/\ (/\ CursorForward
           /\ Atomic(buffer)
           /\ buffer.cursor_idx < Len(buffer.text)
           /\ Leads(buffer.text[buffer.cursor_idx + 1]))
          => buffer'.cursor_idx = UnitEnd(buffer.text, buffer.cursor_idx)
       /\ (/\ CursorBackward
           /\ Atomic(buffer)
           /\ buffer.cursor_idx > 0
           /\ Leads(buffer.text[UnitStart(buffer.text, buffer.cursor_idx) + 1]))
          => buffer'.cursor_idx = UnitStart(buffer.text, buffer.cursor_idx)]_vars

\* C31: on every line, the first and the last included, after CursorStart
\* the cursor index is the index of the first character of the current line
\* and after CursorEnd it is the index of the terminator of the current line
\* (the document length on the last line); the derived row is unchanged.
C31_StartEnd ==
    [][/\ CursorStart
          => /\ buffer'.cursor_idx = RowStart(buffer.text, get_row(buffer))
             /\ get_row(buffer') = get_row(buffer)
       /\ CursorEnd
          => /\ buffer'.cursor_idx
                   = RowStart(buffer.text, get_row(buffer))
                     + RowContent(buffer.text, get_row(buffer))
             /\ get_row(buffer') = get_row(buffer)]_vars

\* C32: InsertNewline with the cursor at index i inserts one line break at
\* index i, leaves the other characters as they were and in order, and
\* leaves the cursor at index i+1, whether or not text follows the cursor.
C32_InsertNewline ==
    [][InsertNewline
       => /\ buffer'.text = SubSeq(buffer.text, 1, buffer.cursor_idx) \o <<NL>>
                            \o SubSeq(buffer.text, buffer.cursor_idx + 1, Len(buffer.text))
          /\ buffer'.cursor_idx = buffer.cursor_idx + 1]_vars

\* the characters InsertTab writes at a column that leaves n cells to the
\* next tab stop
TabRun(n) ==
    [k \in 1..n |-> IF setting.tab_type = "Space" THEN SPACE
                    ELSE IF k = 1 THEN TAB ELSE TAB_PAD]

\* C33: InsertTab at derived column c inserts tab_size - (c mod tab_size)
\* characters at the cursor, all spaces in Space mode, one tab character
\* followed by tab-continuation sentinels in Tab mode, and leaves the cursor
\* immediately after them, at a column that is a multiple of tab_size.
C33_InsertTab ==
    [][InsertTab
       => LET i == buffer.cursor_idx
              n == setting.tab_size - (get_col(buffer) % setting.tab_size)
          IN  /\ buffer'.text = SubSeq(buffer.text, 1, i) \o TabRun(n)
                                \o SubSeq(buffer.text, i + 1, Len(buffer.text))
              /\ buffer'.cursor_idx = i + n
              /\ get_col(buffer') % setting.tab_size = 0]_vars

\* a tab written one column after a tab stop, after a letter
C33_Witness ==
    /\ setting = [tab_size |-> 3, tab_type |-> "Tab"]
    /\ buffer.text = <<97, TAB, TAB_PAD>>
    /\ buffer.cursor_idx = 3
    /\ ~buffer.saved

\* the spaces before index c back to the previous tab stop of its line
RECURSIVE PaddingSpaces(_, _, _)
PaddingSpaces(t, c, col) ==
    IF c > 0 /\ t[c] = SPACE /\ col % setting.tab_size # 0
    THEN 1 + PaddingSpaces(t, c - 1, col - 1) ELSE 0

\* the number of characters of the logical unit that ends at the cursor
UnitBefore(b) ==
    LET t == b.text
        c == b.cursor_idx
    IN  IF t[c] = SPACE /\ get_col(b) % setting.tab_size = 0
        THEN 1 + PaddingSpaces(t, c - 1, get_col(b) - 1)
        ELSE c - UnitStart(t, c)

\* C34: Delete with the cursor immediately after a logical unit removes that
\* unit (a wide glyph with its sentinel, a tab character with its run of
\* sentinels, a run of padding spaces back to the previous tab stop, or one
\* character), moves the cursor back by the number of characters removed and
\* leaves the other characters as they were; it reads no character below
\* index 0; at index 0 it changes neither document nor cursor.
C34_LogicalDelete ==
    [][Delete
       => /\ ~buffer'.panicked
          /\ buffer.cursor_idx = 0
                => (buffer'.text = buffer.text /\ buffer'.cursor_idx = 0)
          /\ (Atomic(buffer) /\ buffer.cursor_idx > 0)
                => LET n == UnitBefore(buffer)
                       c == buffer.cursor_idx
                   IN  /\ buffer'.cursor_idx = c - n
                       /\ buffer'.text = SubSeq(buffer.text, 1, c - n)
                                         \o SubSeq(buffer.text, c + 1, Len(buffer.text))]_vars

(***************************************************************************)
(* Properties of the three tasks together.                                 *)
(***************************************************************************)
\* the action processor is suspended in recv on an empty channel
AwaitingAction ==
    proc.pc = "select" /\ ~TakesStaged(proc) /\ action_channel = <<>>
\* the mutex a task is waiting for, "" when it waits for none
ProcWaitsFor ==
    CASE proc.pc = "lock_line_input" -> "line_input"
      [] proc.pc = "lock_state" -> "state"
      [] proc.pc = "lock_running" -> "running"
      [] proc.pc = "lock_tabs" -> "tabs"
      [] OTHER -> ""
RendererWaitsFor ==
    CASE renderer.pc = "loop" -> "running"
      [] renderer.pc = "lock_state" -> "state"
      [] renderer.pc = "lock_line_input" -> "line_input"
      [] renderer.pc = "lock_tabs" -> "tabs"
      [] OTHER -> ""
InputWaitsFor ==
    CASE event_handler = "next" /\ reader > 0 -> "running"
      [] event_handler \in {"lock_state", "resize_lock_state"} -> "state"
      [] OTHER -> ""
HeldByOther(l, who) == l # "" /\ locks[l] \notin {"free", who}
\* each of the three tasks waits for a mutex another task holds or for an
\* action no task can send
Deadlocked ==
    /\ AwaitingAction \/ HeldByOther(ProcWaitsFor, "processor")
    /\ HeldByOther(RendererWaitsFor, "renderer")
    /\ HeldByOther(InputWaitsFor, "event_handler")

\* C35: the input task, the action processor and the redraw loop never all
\* wait for a mutex or the channel held up by another, and while the action
\* processor is suspended waiting for the next action of the channel it
\* holds no mutex.
C35_DeadlockFreedom ==
    /\ ~Deadlocked
    /\ AwaitingAction => \A l \in Locks : locks[l] # "processor"

\* the action processor is back at recv, or its task has ended, or it and
\* the redraw loop each wait for a mutex another task holds
ChainEnded ==
    \/ proc.pc = "select" /\ ~TakesStaged(proc)
    \/ proc.pc \in {"returned", "panicked"}
    \/ /\ HeldByOther(ProcWaitsFor, "processor")
       /\ HeldByOther(RendererWaitsFor, "renderer")

\* C36: after an action is received from the channel the chain of actions it
\* stages through Excute is finite: the action processor, unless it and the
\* redraw loop wait for each other, eventually is back at receiving from the
\* channel, also after Save or SaveAs on a Buffer tab that has no path.
C36_ChainsTerminate == (proc.pc = "lock_state") ~> ChainEnded

\* an effect of the queue is applied
EffectApplied == proc.pc = "apply" /\ proc.return_queue # <<>> /\ proc' # proc

\* C37: while the running flag is set, after every applied effect the focus
\* index is at least 0 and less than the number of tabs, whatever the focused
\* and the closed index are, and the dispatcher indexes the tabs in range.
C37_FocusValidity ==
    /\ [][(EffectApplied /\ running') => proc'.tab_idx \in 0..(Len(tabs') - 1)]_vars
    /\ [][P_Handle => proc.tab_idx < Len(tabs)]_vars

(***************************************************************************)
(* Properties of the saved flag.                                           *)
(***************************************************************************)
\* save wrote the file in this step
Written == (Save \/ SaveAs) /\ disk'.saves = disk.saves + 1

\* C38: the saved flag is set only if the document is the content last
\* loaded from or written to the file; every action that changes the
\* document clears the flag, only a successful save sets it after the load,
\* and a failed save leaves it as it was.
C38_SavedFlag ==
    /\ [](buffer.saved => (disk.some /\ bytes(Strip(buffer.text)) = disk.s))
    /\ [][buffer'.text # buffer.text => ~buffer'.saved]_vars
    /\ [][(buffer'.saved /\ ~buffer.saved) => Written]_vars
    /\ [][((Save \/ SaveAs) /\ ~Written) => buffer'.saved = buffer.saved]_vars

(***************************************************************************)
(* Properties of the line input.                                           *)
(***************************************************************************)
\* C39: after any sequence of line-input actions 0 <= cur <= length of the
\* text and the scroll window holds the cursor: scroll <= cur <= scroll + len.
C39_LineCursor ==
    /\ 0 <= line_input.cur
    /\ line_input.cur <= Len(line_input.text)
    /\ line_input.scroll <= line_input.cur
    /\ line_input.cur <= line_input.scroll + line_input.len

(***************************************************************************)
(* Properties of queued input.                                             *)
(***************************************************************************)
\* C40: every action is dispatched while the modal state equals the state
\* whose keymap resolved its chord: when the processing task receives an
\* action string (the state is written by this task only, so it is the state
\* the handler is called with), the state is the one the event handler held
\* when it resolved and sent that string.
C40_ModeConsistency ==
    [][P_Receive => state = Head(resolved_in)]_vars

====
